---- MODULE Spec2Model ----
(***************************************************************************)
(* Model of porto's network control plane (src/src/network.cpp) and of the *)
(* task start handshake (src/src/task.cpp).                                *)
(*                                                                         *)
(* SpecNat : NAT address allocation of one parent TNetwork, driven by      *)
(*           workload threads that run TNetCfg::ConfigureInterfaces /      *)
(*           ConfigureL3 and TNetCfg::DestroyNetwork against it.           *)
(* SpecReg : the process-wide registry (Networks, NetworksMutex) with      *)
(*           threads running TNetCfg::PrepareNetwork for named namespaces  *)
(*           and TNetwork::RefreshNetworks / RefreshClasses.               *)
(* SpecHost: SpecReg with the thread that prepares the host manager.       *)
(* SpecDev : the device list of one manager: TNetwork::RefreshDevices and  *)
(*           SetupQueue against the links of its namespace, CreateTC,      *)
(*           DestroyTC and Destroy.                                        *)
(* SpecCls : TNetwork::RefreshClasses(force) and the workloads it calls.   *)
(* SpecTC  : the rate and ceil TNetwork::AddTC programs.                   *)
(* SpecGet : TNetworkDevice::GetConfig on a config table.                  *)
(* SpecDel : TNetwork::DelTC on the class tree of one device.              *)
(* SpecOp  : the loops of TNetwork::CreateTC and DestroyTC.                *)
(* SpecParse: TNetCfg::ParseNet on one specification.                      *)
(* SpecIf  : TNetCfg::ConfigureInterfaces and ConfigureVeth.               *)
(* SpecAgain: ParseNet called again on the same TNetCfg.                   *)
(* SpecSysctl: TTaskEnv::ApplySysctl on the sysctl keys of a workload.     *)
(* SpecAnn : TNetwork::AddAnnounce and the DelAnnounce of DestroyNetwork.  *)
(* SpecNew : SpecReg with TNetCfg::PrepareNetwork for new namespaces.      *)
(* SpecHostLive, SpecRegLive: SpecHost and SpecReg under a periodic        *)
(*           RefreshNetworks.                                              *)
(* SpecLock: the registry lock, the manager locks and the workload-table   *)
(*           lock as RefreshNetworks, RefreshClasses, ConfigureInterfaces  *)
(*           and DestroyNetwork take them.                                 *)
(* SpecTask: TTaskEnv::Start, StartChild and Abort on the report socket.   *)
(***************************************************************************)
EXTENDS Integers, Sequences, FiniteSets, TLC

(***************************************************************************)
(* Bounds.                                                                 *)
(***************************************************************************)
\* number of workload threads provisioning against the parent manager
NumWorkloads == 2
\* size of the NAT bitmap (config network.nat_count)
NatCount == 2

\* number of threads running PrepareNetwork for a named namespace
NumWorkers == 2
\* number of network namespace identities (inodes); inode 1 is the host's
NumInodes == 2
\* number of TNetwork objects that can exist or be named by the registry at once
MaxNets == 2

\* number of interface indexes of the namespace whose devices are tracked
MaxIndex == 2

\* number of workloads RefreshClasses walks over
NumContainers == 2

\* largest small rate configured for a device or requested of AddTC
MaxRate == 3

\* number of class handles on the device DelTC works on
NumClasses == 3

\* longest device list CreateTC and DestroyTC walk over
MaxDevices == 3

\* number of lines of a network specification
MaxLines == 3
\* number of entries of an address or gateway vector
MaxEntries == 2
\* number of ParseNet calls on one TNetCfg
MaxCalls == 2
\* number of sysctl keys of a workload
MaxKeys == 2

Workloads == 1..NumWorkloads
Offsets == 0..(NatCount - 1)

(***************************************************************************)
(* Addresses (TNlAddr): a family and a numeric value; an empty TNlAddr     *)
(* (Addr == nullptr) is NoAddr.                                            *)
(***************************************************************************)
NoAddr == [Family |-> "AF_UNSPEC", Val |-> 0]
\* the configured first NAT addresses (network.nat_first_ipv4 / _ipv6)
NatFirstV4 == [Family |-> "AF_INET", Val |-> 10]
NatFirstV6 == [Family |-> "AF_INET6", Val |-> 50]

IsEmpty(a) == a = NoAddr

\* TNlAddr::AddOffset: the address `offset` places after `base`
AddOffset(base, offset) == [base EXCEPT !.Val = base.Val + offset]

\* TNlAddr::GetOffset: distance of `addr` from `base`
GetOffset(addr, base) == addr.Val - base.Val

VARIABLES
    \* ---- parent TNetwork (SpecNat) ----
    NatBaseV4,      \* TNetwork::NatBaseV4
    NatBaseV6,      \* TNetwork::NatBaseV6
    NatBitmap,      \* TNetwork::NatBitmap: offset -> used
    Mutex,          \* the parent manager's lock: 0 free, else the holder
    \* ---- per workload TNetCfg and thread (SpecNat) ----
    pc,             \* position of the workload's thread
    L3lan,          \* the workload's L3 descriptor [Name, Nat, Addrs]
    IpVec,          \* TNetCfg::IpVec: sequence of [Iface, Addr]
    SaveIp,         \* TNetCfg::SaveIp
    offset,         \* local `offset` of the running GetNatAddress (-1: none)
    error,          \* the TError the provisioning path returned
    veth            \* whether peer.AddVeth created the workload's veth pair

VARIABLES
    \* ---- the registry and the managers (SpecReg) ----
    Networks,           \* static Networks: inode -> weakly held manager (0: no entry)
    NetworksMutex,      \* static NetworksMutex: 0 free, else the holding thread
    HostNetwork,        \* global HostNetwork (a strong reference), 0: null
    NetMutex,           \* per manager: holder of TNetwork's lock, 0 free
    NewManagedDevices,  \* per manager: TNetwork::NewManagedDevices
    \* ---- per thread (SpecReg) ----
    tpc,                \* position of the thread
    Net,                \* the thread's strong reference (TNetCfg::Net, or the
                        \* local `net` of RefreshNetworks), 0: null
    NetNs,              \* inode of the thread's TNetCfg::NetNs, 0: not open
    NatSize,            \* per manager: size of TNetwork::NatBitmap
    left,               \* RefreshNetworks: entries the walk has not visited yet
    lastAdded           \* history: inode -> manager of the latest AddNetwork

regVars == <<Networks, NetworksMutex, HostNetwork, NetMutex, NewManagedDevices,
             NatSize, tpc, Net, NetNs, left, lastAdded>>

natVars == <<NatBaseV4, NatBaseV6, NatBitmap, Mutex, pc, L3lan, IpVec,
             SaveIp, offset, error, veth>>

VARIABLES
    \* ---- one manager and the links of its namespace (SpecDev) ----
    Links,              \* kernel: interface index -> link, or NoLink
    Devices,            \* TNetwork::Devices: sequence of TNetworkDevice
    ManagedNamespace,   \* TNetwork::ManagedNamespace
    dpc,                \* position of the thread inside RefreshDevices
    dev,                \* setup loop: position in Devices of the device in SetupQueue
    step,               \* SetupQueue: the step to execute next
    result,             \* what the latest RefreshDevices pass returned
    unprepared,         \* history: the running pass met a managed unprepared device
    queued,             \* history: devices for which SetupQueue completed
    tcUnmanaged         \* history: a qdisc/class call was issued for an unmanaged device

devVars == <<Links, Devices, ManagedNamespace, dpc, dev, step, result,
             unprepared, queued, tcUnmanaged>>

VARIABLES
    \* ---- RefreshClasses of one manager and the workloads (SpecCls) ----
    Containers,         \* workload -> [Net, State]
    cpc,                \* position of the thread inside RefreshClasses
    force,              \* the argument of the running call
    it,                 \* the workload the loop over Containers is at
    rcResult,           \* what the latest RefreshClasses call returned
    seen,               \* history: what RefreshDevices returned and left in the flag
    calls,              \* history: UpdateTrafficClasses calls of the latest call
    logged              \* history: workloads whose failure was logged

clsVars == <<Containers, cpc, force, it, rcResult, seen, calls, logged>>

VARIABLES
    \* ---- AddTC on one device (SpecTC) ----
    DeviceRate,         \* config network.device_rate: table of pattern, rate
    tcDev,              \* name of the device the class was added on
    tcArgs,             \* the rate and ceil AddTC was called with
    tcClass             \* kernel: rate and ceil of the class, or NoClass

tcVars == <<DeviceRate, tcDev, tcArgs, tcClass>>

VARIABLES
    \* ---- TNetworkDevice::GetConfig on the table DeviceRate (SpecGet) ----
    gName,              \* name of the device
    gDef,               \* the caller's default
    gGot                \* the value returned, or NoVal

getVars == <<gName, gDef, gGot>>

VARIABLES
    \* ---- DelTC on one device (SpecDel) ----
    Classes,            \* kernel: handle -> parent of the class, or NoParent
    xpc,                \* position of the thread inside DelTC
    handle,             \* the handle DelTC was called with
    handles,            \* the vector of handles collected from the class cache
    di,                 \* the position in handles of the next delete
    delResult,          \* what the latest DelTC returned
    snapshot,           \* history: the class cache the handles were collected from
    issued              \* history: the deletes of the latest DelTC, in order, with results

delVars == <<Classes, xpc, handle, handles, di, delResult, snapshot, issued>>

VARIABLES
    \* ---- CreateTC / DestroyTC over the device list (SpecOp) ----
    op,                 \* the running or latest call: "CreateTC" or "DestroyTC"
    opc,                \* position of the thread inside it
    opos,               \* the loop: position in Devices
    opResult,           \* the local `result`: 0 for success, else the error
    attempts,           \* history: the AddTC / DelTC calls of the call, in order
    returned            \* what the latest call returned, or NoReturn

opVars == <<op, opc, opos, opResult, attempts, returned>>

VARIABLES
    \* ---- TNetCfg::ParseNet on one specification (SpecParse) ----
    lines,              \* the specification: a sequence of lines, each a sequence of fields
    NetCfg,             \* the TNetCfg fields ParseNet writes
    none,               \* the local `none`
    idx,                \* the local `idx`
    lineNo,             \* the line the loop is at
    ppc,                \* position of the thread inside ParseNet
    ncalls,             \* number of ParseNet calls made on this TNetCfg
    parsed              \* what ParseNet returned, or "" before it returns

parseVars == <<lines, NetCfg, none, idx, lineNo, ppc, ncalls, parsed>>

VARIABLES
    \* ---- TNetCfg::ConfigureInterfaces for one workload (SpecIf) ----
    NetUp,              \* TNetCfg::NetUp
    ifIpVec,            \* TNetCfg::IpVec of the workload: sequence of [Iface, Addr]
    GwVec,              \* TNetCfg::GwVec: sequence of [Iface, Addr]
    nsLinks,            \* names of the links in the target namespace, by index
    ifDevices,          \* Net->Devices of the target namespace, by name
    kernel,             \* the netlink calls that succeeded, in order
    ifpc,               \* position of the thread inside ConfigureInterfaces
    lpos,               \* position of the running loop
    ifError             \* what ConfigureInterfaces returned, or NoReturn

ifVars == <<NetUp, ifIpVec, GwVec, nsLinks, ifDevices, kernel, ifpc, lpos, ifError>>

VARIABLES
    \* ---- TTaskEnv::ApplySysctl for one workload (SpecSysctl) ----
    Isolate,            \* CT->Isolate
    NetIsolate,         \* CT->NetIsolate
    Sysctl,             \* CT->Sysctl: the keys in the order of iteration
    ipc_sysctl,         \* config container.ipc_sysctl: the default keys
    sysLog,             \* the SetSysctl calls that succeeded: [key, from]
    spc,                \* position of the thread inside ApplySysctl
    spos,               \* position of the running loop
    sysError            \* what ApplySysctl returned, or NoReturn

sysVars == <<Isolate, NetIsolate, Sysctl, ipc_sysctl, sysLog, spc, spos, sysError>>

VARIABLES
    \* ---- announces of one workload on the parent manager (SpecAnn) ----
    master,             \* l3.Master of the workload's L3 descriptor
    proxy,              \* kernel: indexes of the parent's links that hold a
                        \* proxy-neighbour entry for the workload's address
    apc,                \* "new", "announced" (AddAnnounce returned), "destroyed"
    annError,           \* what AddAnnounce / DestroyNetwork returned
    annFailed           \* history: a ProxyNeighbour call of DestroyNetwork failed

annVars == <<master, proxy, apc, annError, annFailed>>

VARIABLES
    \* ---- lock order of the threads (SpecLock) ----
    ContainersMutex,    \* the workload-table lock (LockContainers): 0 free, else the holder
    ParentNet           \* per thread: TNetCfg::ParentNet, 0: null

lockVars == <<ContainersMutex, ParentNet>>

VARIABLES
    \* ---- the start handshake of one task (SpecTask), src/src/task.cpp ----
    TripleFork,         \* TTaskEnv::TripleFork
    Sock,               \* report socket: the messages sent and not yet received by
                        \* the master (MasterSock), each [kind, pid, by]
    MasterSock,         \* zeros the master sent that the child has not read yet
    Sock2,              \* the second pair: 1 when the pid the cloned child sent waits
    MasterSock2,        \* the second pair: 1 when the ack for the cloned child waits
    ReportStage,        \* TTaskEnv::ReportStage, per child process
    kpc,                \* position of each child process
    mpc,                \* position of the master inside Start
    CT,                 \* the CT fields Start writes
    taskExit,           \* how the forked process `task` ended: "none", "ok", "fail"
    startError,         \* what Start returned, or NoReturn
    reported            \* history: every message sent on the report socket, in order

taskVars == <<TripleFork, Sock, MasterSock, Sock2, MasterSock2, ReportStage, kpc, mpc, CT,
              taskExit, startError, reported>>

lastVars == <<lockVars, taskVars>>

lateVars == <<sysVars, annVars, lastVars>>

restVars == <<getVars, delVars, opVars, parseVars, ifVars, lateVars>>

extVars == <<devVars, clsVars, tcVars, restVars>>

vars == <<natVars, regVars, extVars>>

\* the manager the device list belongs to
ThisNet == 1

Indexes == 1..MaxIndex
NoLink == [Name |-> "", Running |-> FALSE, Tc |-> {}]

\* no link in the namespace, no pass running
DevIdle ==
    /\ Links = [i \in Indexes |-> NoLink]
    /\ ManagedNamespace = FALSE
    /\ dpc = "idle"
    /\ dev = 0
    /\ step = 0
    /\ result = "none"
    /\ unprepared = FALSE
    /\ queued = {}
    /\ tcUnmanaged = FALSE

\* nothing tracked
DevInit == Devices = <<>> /\ DevIdle

CtIds == 1..NumContainers
\* a manager other than ThisNet
OtherNet == 2
CtStates == {"Stopped", "Running", "Meta"}

\* no workload attached to the manager, no call running
ClsInit ==
    /\ Containers = [c \in CtIds |-> [Net |-> OtherNet, State |-> "Stopped"]]
    /\ cpc = "idle"
    /\ force = FALSE
    /\ it = 0
    /\ rcResult = "none"
    /\ seen = [error |-> FALSE, flag |-> FALSE]
    /\ calls = [c \in CtIds |-> 0]
    /\ logged = {}

\* uint64_t values as hi * 2^31 + lo with lo < 2^31
U64(n) == [hi |-> 0, lo |-> n]
Gt(a, b) == a.hi > b.hi \/ (a.hi = b.hi /\ a.lo > b.lo)
NoVal == [hi |-> -1, lo |-> -1]

NoClass == [rate |-> NoVal, ceil |-> NoVal]
NoArgs == [rate |-> NoVal, ceil |-> NoVal]

\* no class added yet
TcIdle ==
    /\ tcDev = ""
    /\ tcArgs = NoArgs
    /\ tcClass = NoClass

\* network.device_rate left empty
TcInit ==
    /\ DeviceRate = <<>>
    /\ TcIdle

\* GetConfig not called yet
GetInit ==
    /\ gName = ""
    /\ gDef = NoVal
    /\ gGot = NoVal

Handles == 1..NumClasses
\* the root qdisc as parent, and the parent of a class that does not exist
RootQdisc == 0
NoParent == -1

\* DelTC not called yet
DelIdle ==
    /\ xpc = "idle"
    /\ handle = 0
    /\ handles = <<>>
    /\ di = 0
    /\ delResult = "none"
    /\ snapshot = [h \in Handles |-> NoParent]
    /\ issued = <<>>

\* no class on the device
DelInit ==
    /\ Classes = [h \in Handles |-> NoParent]
    /\ DelIdle

\* TError::Success(), and no value returned yet
Success == 0
NoReturn == -1

\* neither CreateTC nor DestroyTC called yet
OpInit ==
    /\ op = ""
    /\ opc = "idle"
    /\ opos = 0
    /\ opResult = Success
    /\ attempts = <<>>
    /\ returned = NoReturn

\* TNetCfg::Reset (lines 904-915)
Reset ==
    [NewNetNs |-> TRUE, Inherited |-> FALSE, Steal |-> <<>>, MacVlan |-> <<>>,
     IpVlan |-> <<>>, Veth |-> <<>>, L3lan |-> <<>>, NetNsName |-> "",
     NetCtName |-> "", Autoconf |-> <<>>]

\* ParseNet not called yet
ParseIdle ==
    /\ NetCfg = Reset
    /\ none = FALSE
    /\ idx = 0
    /\ lineNo = 0
    /\ ppc = "start"
    /\ ncalls = 0
    /\ parsed = ""

\* the one-line specification `none`
ParseInit ==
    /\ lines = <<(<<"none">>)>>
    /\ ParseIdle

\* ConfigureInterfaces not called yet: only the loopback in the new namespace
IfIdle ==
    /\ nsLinks = <<"lo">>
    /\ ifDevices = <<>>
    /\ kernel = <<>>
    /\ ifpc = "links"
    /\ lpos = 1
    /\ ifError = NoReturn

\* no address, no gateway
IfInit ==
    /\ NetUp = FALSE
    /\ ifIpVec = <<>>
    /\ GwVec = <<>>
    /\ IfIdle

\* ApplySysctl not called yet, for a workload without keys
SysIdle ==
    /\ sysLog = <<>>
    /\ spc = "defaults"
    /\ spos = 1
    /\ sysError = NoReturn

SysInit ==
    /\ Isolate = FALSE
    /\ NetIsolate = FALSE
    /\ Sysctl = <<>>
    /\ ipc_sysctl = <<>>
    /\ SysIdle

\* no announce yet, no master named
AnnIdle ==
    /\ proxy = {}
    /\ apc = "new"
    /\ annError = NoReturn
    /\ annFailed = FALSE

AnnInit == master = "" /\ AnnIdle

\* no thread holds the workload-table lock, no TNetCfg has a parent manager
LockIdle ==
    /\ ContainersMutex = 0
    /\ ParentNet = [t \in 1..(NumWorkers + 2) |-> 0]

\* the child processes of Start: the forked one (with the process vfork
\* makes of it) and the cloned one that runs StartChild
Kids == {"task", "app"}

NoPids == [TaskPid |-> 0, TaskVPid |-> 0, WaitTaskPid |-> 0, SeizeTaskPid |-> 0]

\* Start not called yet
TaskIdle ==
    /\ Sock = <<>>
    /\ MasterSock = 0
    /\ Sock2 = 0
    /\ MasterSock2 = 0
    /\ ReportStage = [k \in Kids |-> 0]
    /\ kpc = [k \in Kids |-> "none"]
    /\ mpc = "idle"
    /\ CT = NoPids
    /\ taskExit = "none"
    /\ startError = NoReturn
    /\ reported = <<>>

LastInit == LockIdle /\ TripleFork = FALSE /\ TaskIdle

LateInit == SysInit /\ AnnInit /\ LastInit

\* the models above at their initial states
ExtInitPrior ==
    DevInit /\ ClsInit /\ TcInit /\ GetInit /\ DelInit /\ OpInit /\ ParseInit /\ IfInit /\ LastInit

ExtInit == DevInit /\ ClsInit /\ TcInit /\ GetInit /\ DelInit /\ OpInit /\ ParseInit /\ IfInit /\ LateInit

(***************************************************************************)
(* TIdMap (TNetwork::NatBitmap): Get hands out the lowest free offset and  *)
(* fails when none is free; Put frees an offset of the map.                *)
(***************************************************************************)
IdMapFree(bitmap) == {i \in DOMAIN bitmap : ~bitmap[i]}

IdMapLowest(bitmap) ==
    CHOOSE i \in IdMapFree(bitmap) : \A j \in IdMapFree(bitmap) : i <= j

IdMapPut(bitmap, off) ==
    IF off \in DOMAIN bitmap THEN [bitmap EXCEPT ![off] = FALSE] ELSE bitmap

IdMapPutError(bitmap, off) ==
    IF off \in DOMAIN bitmap THEN "Success" ELSE "PutOutOfRange"

(***************************************************************************)
(* TNetwork::GetNatAddress, lines 605-615: the addresses appended for an   *)
(* allocated offset, IPv4 first, one per configured base.                  *)
(***************************************************************************)
GetNatAddress_V6Skewed(off) ==
    (IF ~IsEmpty(NatBaseV4) THEN <<AddOffset(NatBaseV4, off)>> ELSE <<>>)
    \o (IF ~IsEmpty(NatBaseV6) THEN <<AddOffset(NatBaseV6, off + 1)>> ELSE <<>>)

GetNatAddressAddrs(off) ==
    (IF ~IsEmpty(NatBaseV4) THEN <<AddOffset(NatBaseV4, off)>> ELSE <<>>)
    \o (IF ~IsEmpty(NatBaseV6) THEN <<AddOffset(NatBaseV6, off)>> ELSE <<>>)

(***************************************************************************)
(* TNetwork::PutNatAddress: the first address of the list whose family has *)
(* a configured base decides the offset that is put; the loop returns      *)
(* there.  With no such address nothing is put and the call succeeds.      *)
(***************************************************************************)
PutMatches(addrs) ==
    {i \in 1..Len(addrs) :
        \/ addrs[i].Family = "AF_INET" /\ ~IsEmpty(NatBaseV4)
        \/ addrs[i].Family = "AF_INET6" /\ ~IsEmpty(NatBaseV6)}

PutFirst(addrs) ==
    CHOOSE i \in PutMatches(addrs) : \A j \in PutMatches(addrs) : i <= j

PutOffset(addrs) ==
    IF addrs[PutFirst(addrs)].Family = "AF_INET"
    THEN GetOffset(addrs[PutFirst(addrs)], NatBaseV4)
    ELSE GetOffset(addrs[PutFirst(addrs)], NatBaseV6)

PutNatAddress(addrs) ==
    IF PutMatches(addrs) = {} THEN NatBitmap
    ELSE IdMapPut(NatBitmap, PutOffset(addrs))

PutNatAddressError(addrs) ==
    IF PutMatches(addrs) = {} THEN "Success"
    ELSE IdMapPutError(NatBitmap, PutOffset(addrs))

(***************************************************************************)
(* The workload's specification: one `NAT eth0` or `L3 eth0` line, and     *)
(* optional `ip eth0 <addr>` lines (TNetCfg::ParseNet, TNetCfg::ParseIp).  *)
(***************************************************************************)
ExplicitAddrs ==
    {<<>>, <<AddOffset(NatFirstV4, 0)>>}

\* the specifications a workload is started with: `NAT eth0` alone,
\* `NAT eth0` with an explicit ip, `L3 eth0` with an explicit ip
NetSpecs ==
    {s \in [Nat : BOOLEAN, Addrs : ExplicitAddrs] : s.Nat \/ s.Addrs # <<>>}

IpEntries(name, addrs) ==
    [i \in 1..Len(addrs) |-> [Iface |-> name, Addr |-> addrs[i]]]

\* The parent manager as PrepareNetwork configures it (lines 1486-1491):
\* each base set or left empty, a bitmap of NatCount offsets.  The first
\* `held` offsets are taken by workloads other than the modelled ones.
NatInit ==
    /\ NatBaseV4 \in {NoAddr, NatFirstV4}
    /\ NatBaseV6 \in {NoAddr, NatFirstV6}
    /\ \E held \in 0..NatCount : NatBitmap = [i \in Offsets |-> i < held]
    /\ Mutex = 0
    /\ pc = [w \in Workloads |-> "idle"]
    /\ L3lan = [w \in Workloads |-> [Name |-> "eth0", Nat |-> FALSE, Addrs |-> <<>>]]
    /\ IpVec = [w \in Workloads |-> <<>>]
    /\ SaveIp = [w \in Workloads |-> FALSE]
    /\ offset = [w \in Workloads |-> -1]
    /\ error = [w \in Workloads |-> "Success"]
    /\ veth = [w \in Workloads |-> FALSE]

natConfig == <<NatBaseV4, NatBaseV6>>

\* ParseNet (Reset, then the L3 / NAT branch) followed by ParseIp
ParseNetIp(w) ==
    /\ pc[w] \in {"idle", "dead"}
    /\ \E s \in NetSpecs :
        /\ L3lan' = [L3lan EXCEPT ![w] = [Name |-> "eth0", Nat |-> s.Nat, Addrs |-> s.Addrs]]
        /\ IpVec' = [IpVec EXCEPT ![w] = IpEntries("eth0", s.Addrs)]
    /\ SaveIp' = [SaveIp EXCEPT ![w] = FALSE]
    /\ offset' = [offset EXCEPT ![w] = -1]
    /\ error' = [error EXCEPT ![w] = "Success"]
    /\ veth' = [veth EXCEPT ![w] = FALSE]
    /\ pc' = [pc EXCEPT ![w] = "parsed"]
    /\ UNCHANGED <<regVars, extVars, natConfig, NatBitmap, Mutex>>

\* ConfigureInterfaces entry: auto parent_lock = ParentNet->ScopedLock();
\* the Steal, IpVlan, MacVlan and Veth loops are empty for this
\* specification, so ConfigureL3 runs next and tests
\* l3.Nat && l3.Addrs.empty() (line 1245)
ConfigureInterfaces_NoLock(w) ==
    /\ pc[w] = "parsed"
    /\ pc' = [pc EXCEPT ![w] =
            IF L3lan[w].Nat /\ L3lan[w].Addrs = <<>> THEN "get_find" ELSE "l3_gate"]
    /\ UNCHANGED <<regVars, extVars, natConfig, NatBitmap, Mutex, L3lan, IpVec, SaveIp,
                   offset, error, veth>>

ConfigureInterfacesLock(w) ==
    /\ pc[w] = "parsed"
    /\ Mutex = 0
    /\ Mutex' = w
    /\ pc' = [pc EXCEPT ![w] =
            IF L3lan[w].Nat /\ L3lan[w].Addrs = <<>> THEN "get_find" ELSE "l3_gate"]
    /\ UNCHANGED <<regVars, extVars, natConfig, NatBitmap, L3lan, IpVec, SaveIp, offset, error, veth>>

\* NatBitmap.Get fails: GetNatAddress and ConfigureL3 return the error
GetNatAddressFail_Appends(w) ==
    /\ error' = [error EXCEPT ![w] = "CannotAllocateNat"]
    /\ L3lan' = [L3lan EXCEPT ![w].Addrs = @ \o GetNatAddressAddrs(0)]
    /\ pc' = [pc EXCEPT ![w] = "cfg_fail"]
    /\ UNCHANGED <<regVars, extVars, natConfig, NatBitmap, Mutex, IpVec, SaveIp, offset, veth>>

GetNatAddressFail(w) ==
    /\ error' = [error EXCEPT ![w] = "CannotAllocateNat"]
    /\ pc' = [pc EXCEPT ![w] = "cfg_fail"]
    /\ UNCHANGED <<regVars, extVars, natConfig, NatBitmap, Mutex, L3lan, IpVec, SaveIp, offset, veth>>

\* NatBitmap.Get, first half: look for the lowest free offset
GetNatAddressFind(w) ==
    /\ pc[w] = "get_find"
    /\ IF IdMapFree(NatBitmap) = {}
       THEN GetNatAddressFail(w)
       ELSE /\ offset' = [offset EXCEPT ![w] = IdMapLowest(NatBitmap)]
            /\ pc' = [pc EXCEPT ![w] = "get_set"]
            /\ UNCHANGED <<regVars, extVars, natConfig, NatBitmap, Mutex, L3lan, IpVec, SaveIp, error, veth>>

\* NatBitmap.Get, second half (mark the offset), the rest of GetNatAddress,
\* and ConfigureL3 lines 1250-1257 (one IpVec entry per address, SaveIp)
GetNatAddressSet(w) ==
    /\ pc[w] = "get_set"
    /\ NatBitmap' = [NatBitmap EXCEPT ![offset[w]] = TRUE]
    /\ L3lan' = [L3lan EXCEPT ![w].Addrs = @ \o GetNatAddressAddrs(offset[w])]
    /\ IpVec' = [IpVec EXCEPT ![w] =
            @ \o IpEntries(L3lan[w].Name, L3lan[w].Addrs \o GetNatAddressAddrs(offset[w]))]
    /\ SaveIp' = [SaveIp EXCEPT ![w] = TRUE]
    /\ pc' = [pc EXCEPT ![w] = "l3_gate"]
    /\ UNCHANGED <<regVars, extVars, natConfig, Mutex, offset, error, veth>>

\* ConfigureL3 lines 1260-1318: GetGateAddress and the gateway check, then
\* peer.AddVeth, then link up, proxy neighbours, routes and announces; the
\* kernel decides which of them fails
ConfigureL3Rest(w) ==
    /\ pc[w] = "l3_gate"
    /\ \/ /\ error' = [error EXCEPT ![w] = "Error"]
          /\ pc' = [pc EXCEPT ![w] = "cfg_fail"]
          /\ UNCHANGED veth
       \/ /\ veth' = [veth EXCEPT ![w] = TRUE]
          /\ error' = [error EXCEPT ![w] = "Error"]
          /\ pc' = [pc EXCEPT ![w] = "cfg_fail"]
       \/ /\ veth' = [veth EXCEPT ![w] = TRUE]
          /\ pc' = [pc EXCEPT ![w] = "cfg_done"]
          /\ UNCHANGED error
    /\ UNCHANGED <<regVars, extVars, natConfig, NatBitmap, Mutex, L3lan, IpVec, SaveIp, offset>>

\* ConfigureInterfaces lines 1386-1450: parent_lock.unlock(), then the work
\* in the target namespace; on an error PrepareNetwork runs DestroyNetwork
ConfigureInterfacesTarget(w) ==
    /\ pc[w] = "cfg_done"
    /\ Mutex' = 0
    /\ \/ /\ pc' = [pc EXCEPT ![w] = "running"]
          /\ UNCHANGED error
       \/ /\ error' = [error EXCEPT ![w] = "TargetError"]
          /\ pc' = [pc EXCEPT ![w] = "destroy"]
    /\ UNCHANGED <<regVars, extVars, natConfig, NatBitmap, L3lan, IpVec, SaveIp, offset, veth>>

\* an error return of ConfigureInterfaces: parent_lock is released by its
\* destructor and PrepareNetwork goes on to DestroyNetwork (line 1464)
ConfigureInterfacesError(w) ==
    /\ pc[w] = "cfg_fail"
    /\ Mutex' = 0
    /\ pc' = [pc EXCEPT ![w] = "destroy"]
    /\ UNCHANGED <<regVars, extVars, natConfig, NatBitmap, L3lan, IpVec, SaveIp, offset, error, veth>>

\* DestroyNetwork line 1545: auto lock = ParentNet->ScopedLock(), on the
\* rollback path or when the running workload is torn down
DestroyNetworkLock(w) ==
    /\ pc[w] \in {"running", "destroy"}
    /\ Mutex = 0
    /\ Mutex' = w
    /\ pc' = [pc EXCEPT ![w] = "d_put"]
    /\ UNCHANGED <<regVars, extVars, natConfig, NatBitmap, L3lan, IpVec, SaveIp, offset, error, veth>>

\* DestroyNetwork lines 1546-1566: DelAnnounce per address, then for a NAT
\* descriptor PutNatAddress(l3.Addrs), erase of the interface's IpVec
\* entries and SaveIp; the lock is released at the end of the iteration
DestroyNetworkL3(w) ==
    /\ pc[w] = "d_put"
    /\ IF L3lan[w].Nat
       THEN /\ NatBitmap' = PutNatAddress(L3lan[w].Addrs)
            /\ error' = [error EXCEPT ![w] = PutNatAddressError(L3lan[w].Addrs)]
            /\ IpVec' = [IpVec EXCEPT ![w] =
                    SelectSeq(@, LAMBDA ip : ip.Iface # L3lan[w].Name)]
            /\ SaveIp' = [SaveIp EXCEPT ![w] = TRUE]
       ELSE /\ error' = [error EXCEPT ![w] = "Success"]
            /\ UNCHANGED <<NatBitmap, IpVec, SaveIp>>
    /\ Mutex' = 0
    /\ pc' = [pc EXCEPT ![w] = "dead"]
    /\ UNCHANGED <<regVars, extVars, natConfig, L3lan, offset, veth>>

NatNext ==
    \E w \in Workloads :
        \/ ParseNetIp(w)
        \/ ConfigureInterfacesLock(w)
        \/ GetNatAddressFind(w)
        \/ GetNatAddressSet(w)
        \/ ConfigureL3Rest(w)
        \/ ConfigureInterfacesTarget(w)
        \/ ConfigureInterfacesError(w)
        \/ DestroyNetworkLock(w)
        \/ DestroyNetworkL3(w)

\* the registry side at rest: no manager, no entry, every thread idle
Inodes == 1..NumInodes
Nets == 1..MaxNets
Workers == 1..NumWorkers
Root == NumWorkers + 1
Maint == NumWorkers + 2
Threads == 1..(NumWorkers + 2)

RegInit ==
    /\ Networks = [i \in Inodes |-> 0]
    /\ NetworksMutex = 0
    /\ HostNetwork = 0
    /\ NetMutex = [m \in Nets |-> 0]
    /\ NewManagedDevices = [m \in Nets |-> FALSE]
    /\ NatSize = [m \in Nets |-> 0]
    /\ tpc = [t \in Threads |-> "idle"]
    /\ Net = [t \in Threads |-> 0]
    /\ NetNs = [t \in Threads |-> 0]
    /\ left = {}
    /\ lastAdded = [i \in Inodes |-> 0]

\* the NAT pool of a prepared host manager; the registry is left alone
InitNat == NatInit /\ RegInit /\ ExtInit

SpecNat == InitNat /\ [][NatNext]_vars

(***************************************************************************)
(* Claims about NAT addressing (SpecNat).                                  *)
(***************************************************************************)

\* a running NAT-mode workload with its addresses
Holds(w) ==
    /\ L3lan[w].Nat
    /\ L3lan[w].Addrs # <<>>
    /\ pc[w] = "running"

AddrsOf(w) == {L3lan[w].Addrs[i] : i \in 1..Len(L3lan[w].Addrs)}

\* C1: a NAT offset is held by at most one live reservation.  For every
\* running workload whose address GetNatAddress allocated: its offset is
\* still marked allocated (no PutNatAddress of another workload freed it),
\* and no other running NAT workload holds one of its addresses.
C1_OffsetHeldOnce ==
    \A w1 \in Workloads :
        (Holds(w1) /\ offset[w1] # -1) =>
            /\ NatBitmap[offset[w1]]
            /\ \A w2 \in Workloads \ {w1} :
                    Holds(w2) => AddrsOf(w1) \cap AddrsOf(w2) = {}

\* C2: every GetNatAddress and PutNatAddress call runs with the manager's
\* lock held by the caller, and the offset a Get found is still free when
\* it marks it, so two concurrent Gets never return the same offset.
C2_NatCallsUnderLock ==
    \A w \in Workloads :
        /\ pc[w] \in {"get_find", "get_set", "d_put"} => Mutex = w
        /\ pc[w] = "get_set" => ~NatBitmap[offset[w]]
        /\ \A w2 \in Workloads \ {w} :
              (pc[w] = "get_set" /\ pc[w2] = "get_set") => offset[w] # offset[w2]

\* one thread is inside GetNatAddress while another NAT workload waits for
\* the parent's lock to provision
C2_Witness ==
    \E w1, w2 \in Workloads :
        /\ w1 # w2
        /\ pc[w1] = "get_set"
        /\ pc[w2] = "parsed" /\ L3lan[w2].Nat /\ L3lan[w2].Addrs = <<>>

\* C3: PutNatAddress of the list a successful GetNatAddress returned frees
\* exactly the offset that Get allocated and leaves every other offset as
\* it was.
C3_PutFreesGotOffset ==
    [][\A w \in Workloads :
        (pc[w] = "d_put" /\ pc'[w] = "dead" /\ L3lan[w].Nat /\ offset[w] # -1)
            => NatBitmap' = [NatBitmap EXCEPT ![offset[w]] = FALSE]]_vars

\* C4: with every offset allocated GetNatAddress fails, appends nothing and
\* changes no allocation, and ConfigureL3 returns that error before it
\* creates the veth pair or records an IP entry; a Get that goes on to mark
\* an offset found a free one.
C4_ExhaustedGetFails ==
    \A w \in Workloads :
        /\ pc[w] = "get_set" => offset[w] \in Offsets /\ ~NatBitmap[offset[w]]
        /\ error[w] = "CannotAllocateNat" =>
              /\ pc[w] \in {"cfg_fail", "destroy", "d_put"}
              /\ L3lan[w].Addrs = <<>>
              /\ IpVec[w] = <<>>
              /\ ~veth[w]
              /\ pc[w] = "cfg_fail" =>
                    /\ \A i \in Offsets : NatBitmap[i]
                    /\ ~SaveIp[w]
                    /\ offset[w] = -1

\* GetNatAddress has failed on a full bitmap of a manager with both bases
C4_Witness ==
    \E w \in Workloads :
        /\ pc[w] = "cfg_fail" /\ error[w] = "CannotAllocateNat"
        /\ ~IsEmpty(NatBaseV4) /\ ~IsEmpty(NatBaseV6)

\* C5: GetNatAddress allocates the lowest free offset and returns
\* base+offset for each configured family, IPv4 first, with one offset for
\* both; ConfigureL3 records one IpVec entry (name, address) per returned
\* address and sets SaveIp.
C5_LowestOffsetLockStep ==
    \A w \in Workloads :
        /\ pc[w] = "get_set" =>
              /\ offset[w] \in Offsets /\ ~NatBitmap[offset[w]]
              /\ \A j \in Offsets : ~NatBitmap[j] => offset[w] <= j
        /\ (offset[w] # -1 /\ pc[w] \in {"l3_gate", "cfg_done", "cfg_fail"}) =>
              NatBitmap[offset[w]]
        /\ (offset[w] # -1 /\ pc[w] \notin {"get_set", "dead"}) =>
              LET a == L3lan[w].Addrs
                  n4 == IF NatBaseV4 = NoAddr THEN 0 ELSE 1
                  n6 == IF NatBaseV6 = NoAddr THEN 0 ELSE 1
              IN  /\ Len(a) = n4 + n6
                  /\ n4 = 1 => a[1] = [Family |-> "AF_INET",
                                        Val |-> NatBaseV4.Val + offset[w]]
                  /\ n6 = 1 => a[n4 + 1] = [Family |-> "AF_INET6",
                                             Val |-> NatBaseV6.Val + offset[w]]
                  /\ Len(IpVec[w]) = Len(a)
                  /\ \A i \in 1..Len(a) :
                        IpVec[w][i] = [Iface |-> L3lan[w].Name, Addr |-> a[i]]
                  /\ SaveIp[w]

\* on an empty bitmap the workload got offset 0 and the two base addresses
C5_Witness ==
    \E w \in Workloads :
        /\ pc[w] = "l3_gate" /\ offset[w] = 0
        /\ L3lan[w].Addrs = <<NatFirstV4, NatFirstV6>>
        /\ \A i \in Offsets : NatBitmap[i] <=> i = 0

\* a step of workload w that operates on the target namespace through
\* Net->GetNl(): in ConfigureL3 everything after a successful peer.AddVeth
\* (link.Load, link.Up, AddDirectRoute, SetDefaultGw), and in
\* ConfigureInterfaces everything after parent_lock.unlock()
TargetNamespaceStep(w) ==
    \/ pc[w] = "l3_gate" /\ veth'[w]
    \/ pc[w] = "cfg_done" /\ pc'[w] # "cfg_done"

\* C11: ConfigureInterfaces has released the parent manager's lock before it
\* operates on the target namespace (target link up, routes, target
\* RefreshDevices): no step that does so is taken with the lock kept.
C11_ParentLockReleasedBeforeTarget ==
    [][\A w \in Workloads : TargetNamespaceStep(w) => Mutex' # w]_vars

\* C31: when PrepareNetwork returns an error after a provisioning step
\* allocated a NAT offset, the rollback has freed the offset and taken the
\* auto-allocated addresses out of the IP list by the time it returns.  The
\* workload's veth pair was never created, so DestroyNetwork runs as the
\* rollback of the failed ConfigureInterfaces here.
C31_RollbackFreesOffset ==
    [][\A w \in Workloads :
        (pc[w] = "d_put" /\ pc'[w] = "dead" /\ ~veth[w] /\ offset[w] # -1)
            => /\ ~NatBitmap'[offset[w]]
               /\ \A n \in 1..Len(IpVec'[w]) :
                    \A k \in 1..Len(GetNatAddressAddrs(offset[w])) :
                        IpVec'[w][n].Addr # GetNatAddressAddrs(offset[w])[k]]_vars

(***************************************************************************)
(* The registry: Networks maps an inode to a weak_ptr<TNetwork>.  A        *)
(* manager is alive while some strong reference to it exists: a TNetCfg's  *)
(* Net, the local `net` of RefreshNetworks, or HostNetwork.                *)
(***************************************************************************)
Expired(m) == (\A t \in Threads : Net[t] # m) /\ HostNetwork # m

\* weak_ptr::lock(): the manager if it is alive, else null
WeakLock(m) == IF m # 0 /\ ~Expired(m) THEN m ELSE 0

\* TNetwork::GetNetwork (body under LockNetworks)
GetNetwork(inode) == WeakLock(Networks[inode])

\* TNetwork::AddNetwork (body under LockNetworks): Networks[inode] = net,
\* then erase every expired entry
AddNetwork_NoSweep(inode, net) == [Networks EXCEPT ![inode] = net]

AddNetwork_KeepsOld(inode, net) ==
    LET put == IF Networks[inode] # 0 THEN Networks
               ELSE [Networks EXCEPT ![inode] = net]
    IN  [i \in Inodes |-> IF WeakLock(put[i]) = 0 THEN 0 ELSE put[i]]

AddNetwork(inode, net) ==
    LET put == [Networks EXCEPT ![inode] = net]
    IN  [i \in Inodes |-> IF WeakLock(put[i]) = 0 THEN 0 ELSE put[i]]

\* make_shared<TNetwork>() yields an object distinct from every live manager
\* and from every manager the registry still names
FreeNets ==
    {m \in Nets : Expired(m) /\ \A i \in Inodes : Networks[i] # m /\ lastAdded[i] # m}

NewNet == CHOOSE m \in FreeNets : \A n \in FreeNets : m <= n

\* the state of a manager whose last strong reference thread t drops is
\* gone with the object
Dropped(t) ==
    IF Net[t] # 0 /\ HostNetwork # Net[t] /\ \A t2 \in Threads \ {t} : Net[t2] # Net[t]
    THEN {Net[t]} ELSE {}

DropNewManagedDevices(t) ==
    [m \in Nets |-> IF m \in Dropped(t) THEN FALSE ELSE NewManagedDevices[m]]

\* what a RefreshDevices pass leaves in NewManagedDevices: set when a
\* managed unprepared device was set up, else as it was
RefreshDevicesFlag(m) == {NewManagedDevices[m], TRUE}

regShared == <<Networks, NetworksMutex, HostNetwork, NetMutex, NewManagedDevices,
               NatSize, left, lastAdded>>

(***************************************************************************)
(* TNetCfg::PrepareNetwork, branch NetNsName != "" (lines 1498-1517).      *)
(* A step that returns an error before it changed anything leaves the      *)
(* state as it was and is a stuttering step.                               *)
(***************************************************************************)
\* NetNs.Open("/var/run/netns/" + NetNsName);
\* Net = TNetwork::GetNetwork(NetNs.GetInode())
PrepareGetNetwork(t) ==
    /\ tpc[t] = "idle"
    /\ NetworksMutex = 0
    /\ \E i \in Inodes :
          /\ NetNs' = [NetNs EXCEPT ![t] = i]
          /\ Net' = [Net EXCEPT ![t] = GetNetwork(i)]
          /\ tpc' = [tpc EXCEPT ![t] = IF GetNetwork(i) # 0 THEN "held" ELSE "pn_new"]
    /\ UNCHANGED <<natVars, extVars, regShared>>

\* Net = std::make_shared<TNetwork>(); Net->ConnectNetns(NetNs);
\* Net->RefreshDevices(); Net->NewManagedDevices = false.  The manager is
\* known to this thread only; on an error PrepareNetwork returns and the
\* manager dies with the TNetCfg.
PrepareNewNetwork(t) ==
    /\ tpc[t] = "pn_new"
    /\ \/ /\ FreeNets # {}
          /\ Net' = [Net EXCEPT ![t] = NewNet]
          /\ NewManagedDevices' = [NewManagedDevices EXCEPT ![NewNet] = FALSE]
          /\ tpc' = [tpc EXCEPT ![t] = "pn_add"]
          /\ NetNs' = NetNs
       \/ /\ NetNs' = [NetNs EXCEPT ![t] = 0]
          /\ tpc' = [tpc EXCEPT ![t] = "idle"]
          /\ UNCHANGED <<Net, NewManagedDevices>>
    /\ UNCHANGED <<natVars, extVars, Networks, NetworksMutex, HostNetwork, NetMutex,
                   NatSize, left, lastAdded>>

\* TNetwork::AddNetwork(NetNs.GetInode(), Net)
PrepareAddNetwork(t) ==
    /\ tpc[t] = "pn_add"
    /\ NetworksMutex = 0
    /\ Networks' = AddNetwork(NetNs[t], Net[t])
    /\ lastAdded' = [lastAdded EXCEPT ![NetNs[t]] = Net[t]]
    /\ tpc' = [tpc EXCEPT ![t] = "held"]
    /\ UNCHANGED <<natVars, extVars, NetworksMutex, HostNetwork, NetMutex,
                   NewManagedDevices, NatSize, left, Net, NetNs>>

\* the workload (its TNetCfg) goes away and with it the reference Net
ReleaseNet(t) ==
    /\ tpc[t] = "held"
    /\ NewManagedDevices' = DropNewManagedDevices(t)
    /\ Net' = [Net EXCEPT ![t] = 0]
    /\ NetNs' = [NetNs EXCEPT ![t] = 0]
    /\ tpc' = [tpc EXCEPT ![t] = "idle"]
    /\ UNCHANGED <<natVars, extVars, Networks, NetworksMutex, HostNetwork, NetMutex,
                   NatSize, left, lastAdded>>

(***************************************************************************)
(* TNetCfg::PrepareNetwork, branch !Parent: the host manager (lines        *)
(* 1469-1492).  The manager is registered first and filled in afterwards.  *)
(***************************************************************************)
HostInode == 1

\* Net = make_shared<TNetwork>(); Net->Connect(); NetNs.Open(GetTid(), "ns/net")
HostConnect ==
    /\ tpc[Root] = "idle"
    /\ FreeNets # {}
    /\ Net' = [Net EXCEPT ![Root] = NewNet]
    /\ NetNs' = [NetNs EXCEPT ![Root] = HostInode]
    /\ tpc' = [tpc EXCEPT ![Root] = "h_add"]
    /\ UNCHANGED <<natVars, extVars, Networks, NetworksMutex, HostNetwork, NetMutex,
                   NewManagedDevices, NatSize, left, lastAdded>>

\* TNetwork::AddNetwork(NetNs.GetInode(), Net)
HostAddNetwork ==
    /\ tpc[Root] = "h_add"
    /\ NetworksMutex = 0
    /\ Networks' = AddNetwork(NetNs[Root], Net[Root])
    /\ lastAdded' = [lastAdded EXCEPT ![NetNs[Root]] = Net[Root]]
    /\ tpc' = [tpc EXCEPT ![Root] = "h_refresh"]
    /\ UNCHANGED <<natVars, extVars, NetworksMutex, HostNetwork, NetMutex,
                   NewManagedDevices, NatSize, left, Net, NetNs>>

\* Net->RefreshDevices(); Net->NewManagedDevices = false  (no lock taken).
\* On an error PrepareNetwork returns and the reference Net is dropped.
HostRefreshDevices ==
    /\ tpc[Root] = "h_refresh"
    /\ \/ /\ NewManagedDevices' = [NewManagedDevices EXCEPT ![Net[Root]] = FALSE]
          /\ tpc' = [tpc EXCEPT ![Root] = "h_nat"]
          /\ UNCHANGED <<Net, NetNs>>
       \/ /\ \E f \in RefreshDevicesFlag(Net[Root]) :
                NewManagedDevices' =
                    [m \in Nets |-> IF m \in Dropped(Root) THEN FALSE
                                    ELSE IF m = Net[Root] THEN f
                                    ELSE NewManagedDevices[m]]
          /\ Net' = [Net EXCEPT ![Root] = 0]
          /\ NetNs' = [NetNs EXCEPT ![Root] = 0]
          /\ tpc' = [tpc EXCEPT ![Root] = "failed"]
    /\ UNCHANGED <<natVars, extVars, Networks, NetworksMutex, HostNetwork, NetMutex,
                   NatSize, left, lastAdded>>

\* NatBaseV4.Parse, NatBaseV6.Parse, NatBitmap.Resize(nat_count) (no lock
\* taken), each if the setting is present; HostNetwork = Net
HostNat ==
    /\ tpc[Root] = "h_nat"
    /\ NatBaseV4' \in {NoAddr, NatFirstV4}
    /\ NatBaseV6' \in {NoAddr, NatFirstV6}
    /\ \E has_nat_count \in BOOLEAN :
          NatSize' = [NatSize EXCEPT ![Net[Root]] = IF has_nat_count THEN NatCount ELSE 0]
    /\ HostNetwork' = Net[Root]
    /\ tpc' = [tpc EXCEPT ![Root] = "held"]
    /\ UNCHANGED <<extVars, NatBitmap, Mutex, pc, L3lan, IpVec, SaveIp, offset, error, veth,
                   Networks, NetworksMutex, NetMutex, NewManagedDevices,
                   left, lastAdded, Net, NetNs>>

(***************************************************************************)
(* TNetwork::RefreshNetworks (lines 114-121) and the RefreshClasses(false) *)
(* it calls on every live manager (lines 449-472).  The scoped registry    *)
(* lock taken on entry is released when RefreshNetworks returns.           *)
(***************************************************************************)
\* auto lock = LockNetworks(); begin the iteration over Networks
RefreshNetworksLock ==
    /\ tpc[Maint] = "idle"
    /\ NetworksMutex = 0
    /\ NetworksMutex' = Maint
    /\ left' = {i \in Inodes : Networks[i] # 0}
    /\ tpc' = [tpc EXCEPT ![Maint] = "rn_loop"]
    /\ UNCHANGED <<natVars, extVars, Networks, HostNetwork, NetMutex, NewManagedDevices,
                   NatSize, lastAdded, Net, NetNs>>

\* next entry: auto net = it.second.lock(); if (net) net->RefreshClasses(false),
\* which begins with auto netLock = ScopedLock()
RefreshNetworksNext ==
    /\ tpc[Maint] = "rn_loop"
    /\ left # {}
    /\ \E i \in left :
          LET net == WeakLock(Networks[i]) IN
          /\ left' = left \ {i}
          /\ Net' = [Net EXCEPT ![Maint] = net]
          /\ IF net # 0
             THEN /\ NetMutex[net] = 0
                  /\ NetMutex' = [NetMutex EXCEPT ![net] = Maint]
                  /\ tpc' = [tpc EXCEPT ![Maint] = "rc_refresh"]
             ELSE UNCHANGED <<NetMutex, tpc>>
    /\ UNCHANGED <<natVars, extVars, Networks, NetworksMutex, HostNetwork,
                   NewManagedDevices, NatSize, lastAdded, NetNs>>

\* end of the iteration: the scoped registry lock is released
RefreshNetworksUnlock ==
    /\ tpc[Maint] = "rn_loop"
    /\ left = {}
    /\ NetworksMutex' = 0
    /\ tpc' = [tpc EXCEPT ![Maint] = "idle"]
    /\ UNCHANGED <<natVars, extVars, Networks, HostNetwork, NetMutex, NewManagedDevices,
                   NatSize, left, lastAdded, Net, NetNs>>

\* RefreshClasses: RefreshDevices(); return on error or when no new managed
\* device appeared, else clear the flag; netLock is released either way
RefreshClassesRefresh ==
    /\ tpc[Maint] = "rc_refresh"
    /\ NetMutex' = [NetMutex EXCEPT ![Net[Maint]] = 0]
    /\ \E err \in BOOLEAN, f \in RefreshDevicesFlag(Net[Maint]) :
          IF err \/ ~f
          THEN /\ NewManagedDevices' =
                    [m \in Nets |-> IF m \in Dropped(Maint) THEN FALSE
                                    ELSE IF m = Net[Maint] THEN f
                                    ELSE NewManagedDevices[m]]
               /\ Net' = [Net EXCEPT ![Maint] = 0]
               /\ tpc' = [tpc EXCEPT ![Maint] = "rn_loop"]
          ELSE /\ NewManagedDevices' = [NewManagedDevices EXCEPT ![Net[Maint]] = FALSE]
               /\ Net' = Net
               /\ tpc' = [tpc EXCEPT ![Maint] = "rc_containers"]
    /\ UNCHANGED <<natVars, extVars, Networks, NetworksMutex, HostNetwork,
                   NatSize, left, lastAdded, NetNs>>

\* RefreshClasses: LockContainers(), UpdateTrafficClasses of the manager's
\* running workloads; return; `net` goes out of scope
RefreshClassesContainers ==
    /\ tpc[Maint] = "rc_containers"
    /\ NewManagedDevices' = DropNewManagedDevices(Maint)
    /\ Net' = [Net EXCEPT ![Maint] = 0]
    /\ tpc' = [tpc EXCEPT ![Maint] = "rn_loop"]
    /\ UNCHANGED <<natVars, extVars, Networks, NetworksMutex, HostNetwork, NetMutex,
                   NatSize, left, lastAdded, NetNs>>

RegNext ==
    \/ \E t \in Workers :
          \/ PrepareGetNetwork(t)
          \/ PrepareNewNetwork(t)
          \/ PrepareAddNetwork(t)
          \/ ReleaseNet(t)
    \/ RefreshNetworksLock
    \/ RefreshNetworksNext
    \/ RefreshNetworksUnlock
    \/ RefreshClassesRefresh
    \/ RefreshClassesContainers

\* before the host manager is prepared: no bases, no offsets handed out, no
\* workload configured
NatUnset ==
    /\ NatBaseV4 = NoAddr
    /\ NatBaseV6 = NoAddr
    /\ NatBitmap = [i \in Offsets |-> FALSE]
    /\ Mutex = 0
    /\ pc = [w \in Workloads |-> "idle"]
    /\ L3lan = [w \in Workloads |-> [Name |-> "eth0", Nat |-> FALSE, Addrs |-> <<>>]]
    /\ IpVec = [w \in Workloads |-> <<>>]
    /\ SaveIp = [w \in Workloads |-> FALSE]
    /\ offset = [w \in Workloads |-> -1]
    /\ error = [w \in Workloads |-> "Success"]
    /\ veth = [w \in Workloads |-> FALSE]

\* the daemon before any manager exists
InitReg == NatUnset /\ RegInit /\ ExtInit

\* named-namespace workloads and the refresh pass
SpecReg == InitReg /\ [][RegNext]_vars

HostNext ==
    \/ HostConnect
    \/ HostAddNetwork
    \/ HostRefreshDevices
    \/ HostNat
    \/ RegNext

\* the same with the thread that prepares the host manager
SpecHost == InitReg /\ [][HostNext]_vars

(***************************************************************************)
(* TNetCfg::PrepareNetwork, branch NewNetNs (lines 1456-1468): the manager *)
(* of a new namespace is connected, configured and then registered.        *)
(***************************************************************************)
\* the namespace unshare(CLONE_NEWNET) made is one no thread has open
NewInodes == {i \in Inodes : \A t \in Threads : NetNs[t] # i}

\* a branch that registers the manager although ConfigureInterfaces failed
PrepareConfigureInterfaces_AddsOnError(t) ==
    /\ tpc[t] = "nn_conf"
    /\ NetworksMutex = 0
    /\ \/ /\ NewManagedDevices' = [NewManagedDevices EXCEPT ![Net[t]] = FALSE]
          /\ tpc' = [tpc EXCEPT ![t] = "nn_add"]
          /\ UNCHANGED <<Networks, lastAdded>>
       \/ /\ \E f \in RefreshDevicesFlag(Net[t]) :
                NewManagedDevices' = [NewManagedDevices EXCEPT ![Net[t]] = f]
          /\ Networks' = AddNetwork(NetNs[t], Net[t])
          /\ lastAdded' = [lastAdded EXCEPT ![NetNs[t]] = Net[t]]
          /\ tpc' = [tpc EXCEPT ![t] = "nn_failed"]
    /\ UNCHANGED <<natVars, extVars, NetworksMutex, HostNetwork, NetMutex,
                   NatSize, left, Net, NetNs>>

\* lines 1457-1460: Net = make_shared<TNetwork>(); error = Net->ConnectNew(NetNs);
\* on an error PrepareNetwork returns it, the TNetCfg keeps the manager
PrepareConnectNew(t) ==
    /\ tpc[t] = "idle"
    /\ FreeNets # {}
    /\ Net' = [Net EXCEPT ![t] = NewNet]
    /\ \/ \E i \in NewInodes :
             /\ NetNs' = [NetNs EXCEPT ![t] = i]
             /\ tpc' = [tpc EXCEPT ![t] = "nn_conf"]
       \/ /\ NetNs' = NetNs
          /\ tpc' = [tpc EXCEPT ![t] = "nn_failed"]
    /\ UNCHANGED <<natVars, extVars, regShared>>

\* lines 1462-1466: error = ConfigureInterfaces(), which ends with
\* Net->RefreshDevices() and Net->NewManagedDevices = false (1398-1402);
\* on an error (void)DestroyNetwork() and return error
PrepareConfigureInterfaces(t) ==
    /\ tpc[t] = "nn_conf"
    /\ \/ /\ NewManagedDevices' = [NewManagedDevices EXCEPT ![Net[t]] = FALSE]
          /\ tpc' = [tpc EXCEPT ![t] = "nn_add"]
       \/ /\ \E f \in RefreshDevicesFlag(Net[t]) :
                NewManagedDevices' = [NewManagedDevices EXCEPT ![Net[t]] = f]
          /\ tpc' = [tpc EXCEPT ![t] = "nn_failed"]
    /\ UNCHANGED <<natVars, extVars, Networks, NetworksMutex, HostNetwork, NetMutex,
                   NatSize, left, lastAdded, Net, NetNs>>

\* line 1468: TNetwork::AddNetwork(NetNs.GetInode(), Net)
PrepareAddNewNetwork(t) ==
    /\ tpc[t] = "nn_add"
    /\ NetworksMutex = 0
    /\ Networks' = AddNetwork(NetNs[t], Net[t])
    /\ lastAdded' = [lastAdded EXCEPT ![NetNs[t]] = Net[t]]
    /\ tpc' = [tpc EXCEPT ![t] = "held"]
    /\ UNCHANGED <<natVars, extVars, NetworksMutex, HostNetwork, NetMutex,
                   NewManagedDevices, NatSize, left, Net, NetNs>>

\* the TNetCfg whose PrepareNetwork failed goes away with its manager
ReleaseFailedNet(t) ==
    /\ tpc[t] = "nn_failed"
    /\ NewManagedDevices' = DropNewManagedDevices(t)
    /\ Net' = [Net EXCEPT ![t] = 0]
    /\ NetNs' = [NetNs EXCEPT ![t] = 0]
    /\ tpc' = [tpc EXCEPT ![t] = "idle"]
    /\ UNCHANGED <<natVars, extVars, Networks, NetworksMutex, HostNetwork, NetMutex,
                   NatSize, left, lastAdded>>

NewNext ==
    \/ \E t \in Workers :
          \/ PrepareConnectNew(t)
          \/ PrepareConfigureInterfaces(t)
          \/ PrepareAddNewNetwork(t)
          \/ ReleaseFailedNet(t)
    \/ RegNext

\* new-namespace workloads beside named-namespace workloads and the refresh
SpecNew == InitReg /\ [][NewNext]_vars

(***************************************************************************)
(* Registry claims.                                                        *)
(***************************************************************************)

\* C6: at most one live manager per namespace identity: workloads that have
\* prepared their network for the same named namespace hold the same manager.
C6_OneManagerPerNamespace ==
    \A t1, t2 \in Workers :
        (tpc[t1] = "held" /\ tpc[t2] = "held" /\ NetNs[t1] = NetNs[t2])
            => Net[t1] = Net[t2]

\* what GetNetwork(inode) has to return according to the history of
\* AddNetwork calls and the strong references alive now
LastAddedAlive(inode) ==
    IF lastAdded[inode] # 0 /\ ~Expired(lastAdded[inode])
    THEN lastAdded[inode] ELSE 0

\* C7: GetNetwork(id) returns the manager most recently added under id while
\* a strong reference to it is alive and null otherwise (nothing added under
\* id, or the last one added has no strong reference left); an entry of the
\* registry does not count as a reference.
C7_GetReturnsLastAdded ==
    [][\A t \in Workers :
          (tpc[t] = "idle" /\ tpc'[t] # "idle")
              => Net'[t] = LastAddedAlive(NetNs'[t])]_vars

\* C7 witness: a lookup hit (two workloads hold the manager one of them
\* added) next to an identity whose last added manager has expired.
C7_Witness ==
    /\ \E t1, t2 \in Workers :
          t1 # t2 /\ tpc[t1] = "held" /\ tpc[t2] = "held" /\ Net[t1] = Net[t2]
    /\ \E i \in Inodes : lastAdded[i] # 0 /\ Expired(lastAdded[i])

\* C8: right after an AddNetwork call the map has no entry of a manager that
\* had expired before the call, and the entries of live managers under other
\* identities are as they were.
C8_AddSweepsExpired ==
    [][\A t \in Workers :
          (tpc[t] = "pn_add" /\ tpc'[t] = "held")
              => /\ \A i \in Inodes :
                       Networks'[i] # 0 => ~Expired(Networks'[i])
                 /\ \A i \in Inodes \ {NetNs[t]} :
                       (Networks[i] # 0 /\ ~Expired(Networks[i]))
                           => Networks'[i] = Networks[i]]_vars

\* C8 witness: an entry has been swept (its identity had a manager added and
\* has no entry now) while the entry of a live manager is still there.
C8_Witness ==
    /\ \E i \in Inodes : lastAdded[i] # 0 /\ Networks[i] = 0
    /\ \E j \in Inodes : Networks[j] # 0 /\ ~Expired(Networks[j])

\* C9: a thread that operates on a manager's state (RefreshClasses: device
\* reconciliation, workload callbacks) does not hold the registry lock.
C9_NoRegistryLockInRefreshClasses ==
    \A t \in Threads :
        tpc[t] \in {"rc_refresh", "rc_containers"} => NetworksMutex # t

\* C10: a thread about to mutate the device list (RefreshDevices) or the NAT
\* bitmap (Resize) of a manager that is in the registry holds that manager's
\* lock.
C10_MutationUnderManagerLock ==
    \A t \in Threads :
        (/\ tpc[t] \in {"h_refresh", "h_nat", "rc_refresh"}
         /\ \E i \in Inodes : Networks[i] = Net[t])
            => NetMutex[Net[t]] = t

\* C37: the manager a workload made for a new namespace is not in the
\* registry before ConfigureInterfaces succeeded for it: while the workload
\* is before AddNetwork, or after ConnectNew or ConfigureInterfaces failed,
\* AddNetwork was not called for the manager, no registry entry names it,
\* GetNetwork returns it for no namespace and no other thread holds it.
C37_RegisteredAfterConfigure ==
    \A t \in Workers :
        tpc[t] \in {"nn_conf", "nn_add", "nn_failed"} =>
            /\ Net[t] # 0
            /\ \A i \in Inodes :
                  /\ lastAdded[i] # Net[t]
                  /\ Networks[i] # Net[t]
                  /\ GetNetwork(i) # Net[t]
            /\ \A t2 \in Threads \ {t} : Net[t2] # Net[t]

\* C37 witness: ConfigureInterfaces failed for a new namespace, and another
\* workload that looked the same namespace up holds a manager of its own.
C37_Witness ==
    \E t, t2 \in Workers :
        /\ tpc[t] = "nn_failed" /\ NetNs[t] # 0
        /\ tpc[t2] = "held" /\ NetNs[t2] = NetNs[t]
        /\ Net[t2] \notin {0, Net[t]}
        /\ Networks[NetNs[t]] = Net[t2]

(***************************************************************************)
(* The periodic refresh.  RefreshNetworks is called again and again, so    *)
(* every step of the maintenance thread that stays possible is taken; on   *)
(* every manager the pass succeeds again and again.                        *)
(***************************************************************************)
\* a RefreshClasses whose RefreshDevices returned no error: with the flag
\* set it goes on to the workloads
RefreshClassesSuccess(m) ==
    /\ RefreshClassesRefresh
    /\ Net[Maint] = m
    /\ NewManagedDevices[m] => tpc'[Maint] = "rc_containers"

MaintNext ==
    \/ RefreshNetworksLock
    \/ RefreshNetworksNext
    \/ RefreshNetworksUnlock
    \/ RefreshClassesRefresh
    \/ RefreshClassesContainers

PeriodicRefresh ==
    /\ WF_vars(MaintNext)
    /\ \A m \in Nets : SF_vars(RefreshClassesSuccess(m))

\* the daemon with the host thread, under the periodic refresh
SpecHostLive == InitReg /\ [][HostNext]_vars /\ PeriodicRefresh

\* named-namespace workloads alone, under the periodic refresh
SpecRegLive == InitReg /\ [][RegNext]_vars /\ PeriodicRefresh

Registered(m) == \E i \in Inodes : Networks[i] = m

\* RefreshClasses is at the loop over the workloads of manager m
CallbacksIssued(m) == tpc[Maint] = "rc_containers" /\ Net[Maint] = m

\* C38: the flag of a live manager is cleared only by the RefreshClasses
\* that goes on to ask the manager's workloads; and once a pass over a
\* registered manager has set the flag, the periodic refresh leads to the
\* workloads being asked, unless the manager dies or leaves the registry.
C38_FlagLeadsToCallbacks ==
    /\ [][\A m \in Nets :
             (NewManagedDevices[m] /\ ~NewManagedDevices'[m] /\ ~Expired(m)')
                 => CallbacksIssued(m)']_vars
    /\ \A m \in Nets :
          (NewManagedDevices[m] /\ Registered(m))
              ~> (CallbacksIssued(m) \/ Expired(m) \/ ~Registered(m))

(***************************************************************************)
(* Device tracking of one manager: TNetwork::RefreshDevices, SetupQueue,   *)
(* CreateTC, DestroyTC and Destroy, over the links the kernel reports for  *)
(* the manager's namespace.  A link is [Name, Running, Tc]: Tc is the set  *)
(* of queueing objects the kernel holds for it.  What RefreshDevices tests *)
(* on a link is fixed by its name here: "lo" has IFF_LOOPBACK, "L3-1" is a *)
(* veth of this runtime, "dummy0" matches an unmanaged_device pattern.     *)
(***************************************************************************)
LinkNames == {"lo", "eth0", "dummy0", "L3-1"}

IsLoopback(link) == link.Name = "lo"
IsPortoVeth(link) == link.Name = "L3-1"
ConfigUnmanaged(name) == name = "dummy0"

\* TNetworkDevice::TNetworkDevice(link) for the link at index i
TNetworkDevice(i) ==
    [Name |-> Links[i].Name, Index |-> i,
     Managed |-> ~ConfigUnmanaged(Links[i].Name),
     Prepared |-> FALSE, Missing |-> FALSE]

\* rtnl_link_get_qdisc(link) == "htb"
HasHtb(i) == "qdisc" \in Links[i].Tc

Min(S) == CHOOSE x \in S : \A y \in S : x <= y

\* RefreshDevices lines 381-382
MarkMissing(devs) == [j \in 1..Len(devs) |-> [devs[j] EXCEPT !.Missing = TRUE]]

\* RefreshDevices lines 385-424: the loop body for the link at index i
ObserveLink(devs, i) ==
    LET d0   == TNetworkDevice(i)
        d    == IF ManagedNamespace THEN [d0 EXCEPT !.Managed = TRUE] ELSE d0
        hits == {j \in 1..Len(devs) :
                    devs[j].Name = d.Name /\ devs[j].Index = d.Index}
    IN  IF IsLoopback(Links[i]) THEN devs
        ELSE IF ~ManagedNamespace /\ ~Links[i].Running THEN devs
        ELSE IF IsPortoVeth(Links[i]) THEN devs
        ELSE IF hits # {}
             THEN [devs EXCEPT ![Min(hits)] =
                      IF d.Managed /\ ~HasHtb(i) THEN d
                      ELSE [d EXCEPT !.Prepared = TRUE]]
             ELSE Append(devs, d)

\* RefreshDevices lines 384-425: the link cache is walked by ascending index
RECURSIVE ObserveLinks(_, _)
ObserveLinks(devs, i) ==
    IF i > MaxIndex THEN devs
    ELSE ObserveLinks(IF Links[i] = NoLink THEN devs ELSE ObserveLink(devs, i), i + 1)

EraseMissing_None(devs) == devs

\* RefreshDevices lines 429-435
EraseMissing(devs) == SelectSeq(devs, LAMBDA d : ~d.Missing)

\* the device list RefreshDevices leaves before it sets up queues
RefreshDevicesList == EraseMissing(ObserveLinks(MarkMissing(Devices), 1))

\* RefreshDevices lines 437-439: the devices the setup loop does not skip
NextUnprepared(devs, from) ==
    {j \in from..Len(devs) : devs[j].Managed /\ ~devs[j].Prepared}

DevKey(d) == <<d.Name, d.Index>>
DevKeys(devs) == {DevKey(devs[j]) : j \in 1..Len(devs)}

regRest == <<Networks, NetworksMutex, HostNetwork, NetMutex, NatSize, tpc, Net,
             NetNs, left, lastAdded>>

(***************************************************************************)
(* SetupQueue (lines 211-309) as the sequence of its kernel calls: load    *)
(* the link, root qdisc 1:0, cgroup filter, class 1:1, class 1:2, qdisc of *)
(* the default class, class 1:3.                                           *)
(***************************************************************************)
SqSteps_DefaultBeforeRoot ==
    <<"load", "qdisc", "filter", "class2", "class1", "defq", "class3">>

SqSteps == <<"load", "qdisc", "filter", "class1", "class2", "defq", "class3">>

\* steps that issue no create call: qdisc.Check(link) holds, the namespace
\* is runtime-managed or defq.Check(link) holds
SqSkips(name, i) ==
    \/ name = "qdisc" /\ HasHtb(i)
    \/ name = "defq" /\ (ManagedNamespace \/ "defq" \in Links[i].Tc)

\* the kernel after the step succeeded
SqKernel(name, i) ==
    IF name = "load" \/ SqSkips(name, i) THEN Links
    ELSE [Links EXCEPT ![i].Tc = @ \cup {name}]

\* RefreshDevices line 443
FlagAfterSetup == [NewManagedDevices EXCEPT ![ThisNet] = TRUE]

\* the setup loop moves on from position `from` of the list devs: SetupQueue
\* of the next device it does not skip, or return TError::Success()
SetupLoop(devs, from) ==
    IF NextUnprepared(devs, from) = {}
    THEN /\ dpc' = "idle"
         /\ dev' = 0
         /\ step' = 0
         /\ result' = "ok"
         /\ unprepared' = FALSE
    ELSE /\ dpc' = "sq"
         /\ dev' = Min(NextUnprepared(devs, from))
         /\ step' = 1
         /\ result' = "none"
         /\ unprepared' = TRUE

\* RefreshDevices lines 377-379: rtnl_link_alloc_cache fails
RefreshDevicesError ==
    /\ dpc = "idle"
    /\ result' = "error"
    /\ UNCHANGED <<natVars, regVars, clsVars, tcVars, restVars, Links, Devices, ManagedNamespace, dpc, dev,
                   step, unprepared, queued, tcUnmanaged>>

\* RefreshDevices lines 377-439: the walk over the link cache, the removal
\* of missing devices and the entry into the setup loop
RefreshDevices ==
    /\ dpc = "idle"
    /\ Devices' = RefreshDevicesList
    /\ queued' = queued \cap DevKeys(RefreshDevicesList)
    /\ SetupLoop(RefreshDevicesList, 1)
    /\ UNCHANGED <<natVars, regVars, clsVars, tcVars, restVars, Links, ManagedNamespace, tcUnmanaged>>

\* one step of SetupQueue succeeds; after the last one dev.Prepared = true,
\* RefreshDevices sets NewManagedDevices and goes on with the loop
SetupQueueStep ==
    /\ dpc = "sq"
    /\ Links' = SqKernel(SqSteps[step], Devices[dev].Index)
    /\ tcUnmanaged' = (tcUnmanaged \/ ~Devices[dev].Managed)
    /\ IF step < Len(SqSteps)
       THEN /\ step' = step + 1
            /\ UNCHANGED <<Devices, dpc, dev, result, unprepared, queued,
                           NewManagedDevices>>
       ELSE /\ Devices' = [Devices EXCEPT ![dev].Prepared = TRUE]
            /\ queued' = queued \cup {DevKey(Devices[dev])}
            /\ NewManagedDevices' = FlagAfterSetup
            /\ SetupLoop([Devices EXCEPT ![dev].Prepared = TRUE], dev + 1)
    /\ UNCHANGED <<natVars, regRest, clsVars, tcVars, restVars, ManagedNamespace>>

\* a step of SetupQueue fails and the loop goes on with the next device
SetupQueueError_Continues ==
    /\ dpc = "sq"
    /\ ~SqSkips(SqSteps[step], Devices[dev].Index)
    /\ SetupLoop(Devices, dev + 1)
    /\ UNCHANGED <<natVars, regVars, clsVars, tcVars, restVars, Links, Devices, ManagedNamespace, queued,
                   tcUnmanaged>>

\* a step of SetupQueue fails: SetupQueue returns the error and
\* RefreshDevices returns it (lines 440-442)
SetupQueueError ==
    /\ dpc = "sq"
    /\ ~SqSkips(SqSteps[step], Devices[dev].Index)
    /\ dpc' = "idle"
    /\ dev' = 0
    /\ step' = 0
    /\ result' = "error"
    /\ unprepared' = FALSE
    /\ UNCHANGED <<natVars, regVars, clsVars, tcVars, restVars, Links, Devices, ManagedNamespace, queued,
                   tcUnmanaged>>

\* the callers of RefreshDevices clear the flag after a successful pass
\* (lines 454, 1402, 1484, 1514)
ClearNewManagedDevices ==
    /\ dpc = "idle"
    /\ result = "ok"
    /\ NewManagedDevices[ThisNet]
    /\ NewManagedDevices' = [NewManagedDevices EXCEPT ![ThisNet] = FALSE]
    /\ UNCHANGED <<natVars, regRest, extVars>>

\* ConfigureInterfaces line 1396, before the first pass of a new manager
SetManagedNamespace ==
    /\ dpc = "idle"
    /\ result = "none"
    /\ Devices = <<>>
    /\ ~ManagedNamespace
    /\ ManagedNamespace' = TRUE
    /\ UNCHANGED <<natVars, regVars, clsVars, tcVars, restVars, Links, Devices, dpc, dev, step, result,
                   unprepared, queued, tcUnmanaged>>

(***************************************************************************)
(* Traffic classes of a workload (one handle, "class4", below class 1:3)   *)
(* and the teardown of the manager.                                        *)
(***************************************************************************)
\* the tracked devices CreateTC, DestroyTC and Destroy do not skip
TcDevices_All == 1..Len(Devices)

TcDevices == {j \in 1..Len(Devices) : Devices[j].Managed}

TcIndexes == {Devices[j].Index : j \in TcDevices}

\* CreateTC (lines 860-885): AddTC on every device not skipped; the kernel
\* adds the class where its parent 1:3 exists, else the error is logged
CreateTC ==
    /\ dpc = "idle"
    /\ Links' = [i \in Indexes |->
                    IF i \in TcIndexes /\ "class3" \in Links[i].Tc
                    THEN [Links[i] EXCEPT !.Tc = @ \cup {"class4"}]
                    ELSE Links[i]]
    /\ tcUnmanaged' = (tcUnmanaged \/ \E j \in TcDevices : ~Devices[j].Managed)
    /\ UNCHANGED <<natVars, regVars, clsVars, tcVars, restVars, Devices, ManagedNamespace, dpc, dev, step,
                   result, unprepared, queued>>

\* DestroyTC (lines 887-902): DelTC on every device not skipped
DestroyTC ==
    /\ dpc = "idle"
    /\ Links' = [i \in Indexes |->
                    IF i \in TcIndexes
                    THEN [Links[i] EXCEPT !.Tc = @ \ {"class4"}]
                    ELSE Links[i]]
    /\ tcUnmanaged' = (tcUnmanaged \/ \E j \in TcDevices : ~Devices[j].Managed)
    /\ UNCHANGED <<natVars, regVars, clsVars, tcVars, restVars, Devices, ManagedNamespace, dpc, dev, step,
                   result, unprepared, queued>>

\* Destroy (lines 185-208): the root qdisc of every device not skipped is
\* deleted, and with it everything below it
Destroy ==
    /\ dpc = "idle"
    /\ Links' = [i \in Indexes |->
                    IF \E j \in TcDevices : Devices[j].Name = Links[i].Name
                    THEN [Links[i] EXCEPT !.Tc = {}]
                    ELSE Links[i]]
    /\ tcUnmanaged' = (tcUnmanaged \/ \E j \in TcDevices : ~Devices[j].Managed)
    /\ UNCHANGED <<natVars, regVars, clsVars, tcVars, restVars, Devices, ManagedNamespace, dpc, dev, step,
                   result, unprepared, queued>>

(***************************************************************************)
(* The namespace: links come, go and change their IFF_RUNNING flag between *)
(* passes.  Link names are unique in a namespace and the loopback device   *)
(* has index 1.  IFF_RUNNING is read only outside a runtime-managed        *)
(* namespace (line 392), so it is left set inside one.                     *)
(***************************************************************************)
LinkAdd(i) ==
    /\ dpc = "idle"
    /\ Links[i] = NoLink
    /\ \E name \in LinkNames, running \in BOOLEAN :
          /\ \A k \in Indexes : Links[k].Name # name
          /\ name \in {"lo", "L3-1"} => running
          /\ name = "lo" => i = 1
          /\ ManagedNamespace => running
          /\ Links' = [Links EXCEPT ![i] = [Name |-> name, Running |-> running, Tc |-> {}]]
    /\ UNCHANGED <<natVars, regVars, clsVars, tcVars, restVars, Devices, ManagedNamespace, dpc, dev, step,
                   result, unprepared, queued, tcUnmanaged>>

LinkDel(i) ==
    /\ dpc = "idle"
    /\ Links[i] # NoLink
    /\ Links' = [Links EXCEPT ![i] = NoLink]
    /\ UNCHANGED <<natVars, regVars, clsVars, tcVars, restVars, Devices, ManagedNamespace, dpc, dev, step,
                   result, unprepared, queued, tcUnmanaged>>

LinkSetRunning(i) ==
    /\ dpc = "idle"
    /\ ~ManagedNamespace
    /\ Links[i].Name \in {"eth0", "dummy0"}
    /\ Links' = [Links EXCEPT ![i].Running = ~@]
    /\ UNCHANGED <<natVars, regVars, clsVars, tcVars, restVars, Devices, ManagedNamespace, dpc, dev, step,
                   result, unprepared, queued, tcUnmanaged>>

DevNext ==
    \/ RefreshDevicesError
    \/ RefreshDevices
    \/ SetupQueueStep
    \/ SetupQueueError
    \/ ClearNewManagedDevices
    \/ SetManagedNamespace
    \/ CreateTC
    \/ DestroyTC
    \/ Destroy
    \/ \E i \in Indexes :
          \/ LinkAdd(i)
          \/ LinkDel(i)
          \/ LinkSetRunning(i)

\* a manager with nothing tracked in a namespace without links
SpecDev == InitReg /\ [][DevNext]_vars

(***************************************************************************)
(* Device tracking claims.                                                 *)
(***************************************************************************)
\* a live link RefreshDevices has to track
Eligible(i) ==
    /\ Links[i] # NoLink
    /\ ~IsLoopback(Links[i])
    /\ ManagedNamespace \/ Links[i].Running
    /\ ~IsPortoVeth(Links[i])

KeySeq(devs) == [j \in 1..Len(devs) |-> DevKey(devs[j])]
LinkKeySeq == [i \in Indexes |-> <<Links[i].Name, i>>]

\* tracked entries whose link is still eligible, in their old order, then
\* the eligible links not tracked yet, in enumeration order
ExpectedKeys ==
    SelectSeq(KeySeq(Devices), LAMBDA k : Eligible(k[2]) /\ Links[k[2]].Name = k[1])
    \o SelectSeq(LinkKeySeq, LAMBDA k : Eligible(k[2]) /\ k \notin DevKeys(Devices))

\* C12: the walk of a RefreshDevices pass leaves exactly one entry per
\* eligible live link, matched by (name, index): entries still present keep
\* their position, new links are appended in enumeration order, entries not
\* observed are removed, none is left with Missing; the setup loop that
\* follows changes no entry's identity.
C12_ListMatchesLinks ==
    [][/\ RefreshDevices =>
            /\ KeySeq(Devices') = ExpectedKeys
            /\ Cardinality(DevKeys(Devices')) = Len(Devices')
            /\ DevKeys(Devices') = {<<Links[i].Name, i>> : i \in {k \in Indexes : Eligible(k)}}
            /\ \A j \in 1..Len(Devices') : ~Devices'[j].Missing
       /\ dpc = "sq" => KeySeq(Devices') = KeySeq(Devices)]_vars

\* C12 witness: after a successful pass an entry tracked earlier stands
\* before a link of lower index that was appended later.
C12_Witness ==
    /\ dpc = "idle" /\ result = "ok"
    /\ Len(Devices) = 2
    /\ Devices[1].Index > Devices[2].Index
    /\ \A j \in 1..2 : Links[Devices[j].Index].Name = Devices[j].Name

\* a tracked managed device that enters the pass unprepared and is still
\* present after the walk
UnpreparedAtEntry ==
    \E j \in 1..Len(Devices) :
        /\ Devices[j].Managed /\ ~Devices[j].Prepared
        /\ DevKey(Devices[j]) \in DevKeys(RefreshDevicesList)

\* C13: when a RefreshDevices pass returns success every tracked managed
\* device is prepared, and NewManagedDevices is set if a managed unprepared
\* device existed in the pass: one that entered it unprepared and was
\* observed again, or one the setup loop met.
C13_ManagedPreparedAndFlag ==
    [][((RefreshDevices \/ SetupQueueStep) /\ dpc' = "idle" /\ result' = "ok") =>
          /\ \A j \in 1..Len(Devices') : Devices'[j].Managed => Devices'[j].Prepared
          /\ unprepared => NewManagedDevices'[ThisNet]
          /\ (RefreshDevices /\ UnpreparedAtEntry) => NewManagedDevices'[ThisNet]]_vars

\* C14: a tracked device, managed or not, has Prepared set only if
\* SetupQueue has completed successfully for it.
C14_PreparedOnlyAfterSetupQueue ==
    \A j \in 1..Len(Devices) :
        Devices[j].Prepared => DevKey(Devices[j]) \in queued

\* C15: no qdisc or class call is ever issued for a tracked device with
\* Managed = FALSE (SetupQueue, CreateTC, DestroyTC, Destroy), and in a
\* runtime-managed namespace every tracked device is managed.
C15_UnmanagedNeverQueued ==
    /\ ~tcUnmanaged
    /\ ManagedNamespace => \A j \in 1..Len(Devices) : Devices[j].Managed

\* C15 witness: CreateTC has added the workload class on a managed device
\* while an unmanaged device is tracked.
C15_Witness ==
    /\ \E j \in 1..Len(Devices) : ~Devices[j].Managed
    /\ \E i \in Indexes : "class4" \in Links[i].Tc

\* C16: an error return of RefreshDevices is immediate.  A failed link
\* enumeration leaves the device list, all flags and NewManagedDevices as
\* they were; a failed SetupQueue ends the pass at once, with no later
\* device set up and the failing device unprepared.
C16_FailFast ==
    [][(RefreshDevicesError \/ SetupQueueError) =>
          /\ dpc' = "idle" /\ result' = "error"
          /\ Devices' = Devices
          /\ Links' = Links
          /\ NewManagedDevices' = NewManagedDevices
          /\ dpc = "sq" => ~Devices'[dev].Prepared]_vars

\* C16 witness: a pass returned an error and left two managed devices
\* unprepared, the failing one and the one after it.
C16_Witness ==
    /\ dpc = "idle" /\ result = "error"
    /\ Len(Devices) = 2
    /\ \A j \in 1..2 : Devices[j].Managed /\ ~Devices[j].Prepared

\* the objects SetupQueue has to have in place for a prepared device
SqRequired ==
    {"qdisc", "filter", "class1", "class2", "class3"}
        \cup (IF ManagedNamespace THEN {} ELSE {"defq"})

\* C19: SetupQueue sets Prepared only with the root qdisc, the filter, the
\* classes 1, 2, 3 and (outside a runtime-managed namespace) the default
\* qdisc in place; every object is created after the one it hangs on; a
\* failing step ends SetupQueue with no later step and Prepared unset.
C19_SetupQueueOrder ==
    [][dpc = "sq" =>
        LET i   == Devices[dev].Index
            new == Links'[i].Tc \ Links[i].Tc
            old == Links[i].Tc
        IN  /\ "filter" \in new => "qdisc" \in old
            /\ "class1" \in new => {"qdisc", "filter"} \subseteq old
            /\ "class2" \in new => "class1" \in old
            /\ "defq" \in new => "class2" \in old /\ ~ManagedNamespace
            /\ "class3" \in new => "class1" \in old
            /\ (Devices'[dev].Prepared /\ ~Devices[dev].Prepared)
                   => SqRequired \subseteq Links'[i].Tc
            /\ SetupQueueError =>
                   Links' = Links /\ Devices' = Devices /\ ~Devices[dev].Prepared]_vars

\* C19 witness: a device outside a runtime-managed namespace is prepared with
\* the whole class tree and the default qdisc in place.
C19_Witness ==
    /\ ~ManagedNamespace
    /\ \E j \in 1..Len(Devices) :
          /\ Devices[j].Prepared /\ DevKey(Devices[j]) \in queued
          /\ SqRequired \subseteq Links[Devices[j].Index].Tc

(***************************************************************************)
(* RefreshClasses(force) of the manager ThisNet (lines 449-472), run by    *)
(* the thread Maint, and the workloads it walks over.                      *)
(***************************************************************************)
regCls == <<Networks, NetworksMutex, HostNetwork, NatSize, tpc, Net, NetNs,
            left, lastAdded>>

\* line 452 without the test of force
Returns_IgnoresForce(err, f, flag) == err \/ ~flag

\* line 452: if (error || (!force && !NewManagedDevices)) return error
Returns(err, f, flag) == err \/ (~f /\ ~flag)

\* lines 460-462: the workloads the loop calls
Refreshed(c) ==
    /\ Containers[c].Net = ThisNet
    /\ Containers[c].State \in {"Running", "Meta"}

\* a loop that gives up at the first failing workload
NextContainer_StopsOnError(c, err) == IF err THEN NumContainers + 1 ELSE c + 1

\* lines 463-466: the error is logged and the loop goes on
NextContainer(c, err) == c + 1

\* line 450: auto netLock = ScopedLock()
RefreshClassesLock ==
    /\ cpc = "idle"
    /\ NetMutex[ThisNet] = 0
    /\ NetMutex' = [NetMutex EXCEPT ![ThisNet] = Maint]
    /\ \E f \in BOOLEAN : force' = f
    /\ cpc' = "refresh"
    /\ it' = 0
    /\ rcResult' = "none"
    /\ seen' = [error |-> FALSE, flag |-> FALSE]
    /\ calls' = [c \in CtIds |-> 0]
    /\ logged' = {}
    /\ UNCHANGED <<natVars, regCls, NewManagedDevices, devVars, tcVars, restVars, Containers>>

\* lines 451-455: RefreshDevices returns an error or success and may have
\* set NewManagedDevices (line 443); early return, or the flag is cleared;
\* the scoped lock is released either way
RefreshClassesDevices ==
    /\ cpc = "refresh"
    /\ \E err \in BOOLEAN, flag \in {NewManagedDevices[ThisNet], TRUE} :
          /\ seen' = [error |-> err, flag |-> flag]
          /\ IF Returns(err, force, flag)
             THEN /\ NewManagedDevices' = [NewManagedDevices EXCEPT ![ThisNet] = flag]
                  /\ rcResult' = IF err THEN "error" ELSE "ok"
                  /\ cpc' = "idle"
                  /\ it' = it
             ELSE /\ NewManagedDevices' = [NewManagedDevices EXCEPT ![ThisNet] = FALSE]
                  /\ rcResult' = rcResult
                  /\ cpc' = "loop"
                  /\ it' = 1
    /\ NetMutex' = [NetMutex EXCEPT ![ThisNet] = 0]
    /\ UNCHANGED <<natVars, regCls, devVars, tcVars, restVars, Containers, force, calls, logged>>

\* lines 458-468: one iteration of the loop over Containers;
\* ct->UpdateTrafficClasses() succeeds or fails
RefreshClassesNext ==
    /\ cpc = "loop"
    /\ it <= NumContainers
    /\ IF Refreshed(it)
       THEN \E err \in BOOLEAN :
               /\ calls' = [calls EXCEPT ![it] = @ + 1]
               /\ logged' = IF err THEN logged \cup {it} ELSE logged
               /\ it' = NextContainer(it, err)
       ELSE /\ it' = it + 1
            /\ UNCHANGED <<calls, logged>>
    /\ UNCHANGED <<natVars, regVars, devVars, tcVars, restVars, Containers, cpc, force,
                   rcResult, seen>>

\* line 471: return TError::Success()
RefreshClassesDone ==
    /\ cpc = "loop"
    /\ it > NumContainers
    /\ cpc' = "idle"
    /\ rcResult' = "ok"
    /\ UNCHANGED <<natVars, regVars, devVars, tcVars, restVars, Containers, force, it,
                   seen, calls, logged>>

\* a workload starts, stops, or moves to or from the manager between calls;
\* the loop holds the containers lock
ContainerChange(c) ==
    /\ cpc = "idle"
    /\ \E net \in {ThisNet, OtherNet}, st \in CtStates :
          /\ [Net |-> net, State |-> st] # Containers[c]
          /\ Containers' = [Containers EXCEPT ![c] = [Net |-> net, State |-> st]]
    /\ UNCHANGED <<natVars, regVars, devVars, tcVars, restVars, cpc, force, it, rcResult,
                   seen, calls, logged>>

\* a RefreshDevices pass of another thread sets the flag while the
\* manager's lock is free
OtherRefreshDevices ==
    /\ NetMutex[ThisNet] = 0
    /\ ~NewManagedDevices[ThisNet]
    /\ NewManagedDevices' = [NewManagedDevices EXCEPT ![ThisNet] = TRUE]
    /\ UNCHANGED <<natVars, regRest, extVars>>

ClsNext ==
    \/ RefreshClassesLock
    \/ RefreshClassesDevices
    \/ RefreshClassesNext
    \/ RefreshClassesDone
    \/ OtherRefreshDevices
    \/ \E c \in CtIds : ContainerChange(c)

SpecCls == InitReg /\ [][ClsNext]_vars

C18_EveryWorkloadOnce ==
    [][/\ (RefreshClassesNext /\ calls' # calls) => NetMutex[ThisNet] # Maint
       /\ RefreshClassesDone =>
              /\ rcResult' = "ok"
              /\ \A c \in CtIds : calls[c] = (IF Refreshed(c) THEN 1 ELSE 0)]_vars

\* C18 witness: the call returned success after the call to one workload
\* failed and a later workload was called.
C18_Witness ==
    /\ cpc = "idle" /\ rcResult = "ok" /\ it = NumContainers + 1
    /\ \E c1, c2 \in CtIds :
          c1 < c2 /\ c1 \in logged /\ calls[c1] = 1 /\ calls[c2] = 1

(***************************************************************************)
(* DelTC (lines 806-858) on the classes of one device.  The kernel refuses *)
(* to delete a class that has children (NLE_BUSY) and reports a class that *)
(* does not exist as NLE_OBJ_NOTFOUND; any delete can fail otherwise.      *)
(***************************************************************************)
baseVars == <<natVars, regVars, devVars, clsVars, tcVars>>

Children(cls, h) == {x \in Handles : cls[x] = h}

\* the forests the classes of a device can form
RECURSIVE Up(_, _, _)
Up(cls, h, n) ==
    IF n = 0 \/ h = RootQdisc \/ h = NoParent THEN h ELSE Up(cls, cls[h], n - 1)
ClassTrees ==
    {cls \in [Handles -> Handles \cup {RootQdisc, NoParent}] :
        \A h \in Handles : Up(cls, h, NumClasses + 1) \in {RootQdisc, NoParent}
                           /\ (cls[h] \in Handles => cls[cls[h]] # NoParent)}

\* the classes of the cache with parent h, in the order of the cache
RECURSIVE CacheChildren(_, _, _)
CacheChildren(cache, h, x) ==
    IF x > NumClasses THEN <<>>
    ELSE (IF cache[x] = h THEN <<x>> ELSE <<>>) \o CacheChildren(cache, h, x + 1)

\* a loop that walks only the handles it started with
Collect_OnePass(cache, hs, i) ==
    IF i > Len(hs) THEN hs ELSE hs \o CacheChildren(cache, hs[i], 1)

\* lines 832-840: handles grows while position i walks over it
RECURSIVE Collect(_, _, _)
Collect(cache, hs, i) ==
    IF i > Len(hs) THEN hs
    ELSE Collect(cache, hs \o CacheChildren(cache, hs[i], 1), i + 1)

\* a loop that walks handles from the front
DelPosition_Forward(hs, k) == k

\* line 844: the k-th delete of the cascade takes handles[size - k]
DelPosition(hs, k) == Len(hs) + 1 - k

\* a test that takes not-found for a failure
Failed_NotFound(ret) == ret # "ok"

\* lines 848, 853: ret < 0 && ret != -NLE_OBJ_NOTFOUND
Failed(ret) == ret \notin {"ok", "notfound"}

\* rtnl_class_delete: the results the kernel can give for handle h
DeleteResults(h) ==
    {"error"} \cup
    (IF Classes[h] = NoParent THEN {"notfound"}
     ELSE IF Children(Classes, h) # {} THEN {"busy"}
     ELSE {"ok"})

\* the classes after rtnl_class_delete of h returned ret
AfterDelete(h, ret) ==
    IF ret = "ok" THEN [Classes EXCEPT ![h] = NoParent] ELSE Classes

\* lines 806-823: the first rtnl_class_delete; busy leads to the cascade
DelTC(h) ==
    /\ xpc = "idle"
    /\ handle' = h
    /\ handles' = <<>>
    /\ di' = 0
    /\ snapshot' = [x \in Handles |-> NoParent]
    /\ \E ret \in DeleteResults(h) :
          /\ Classes' = AfterDelete(h, ret)
          /\ issued' = <<[h |-> h, ret |-> ret]>>
          /\ IF ret = "busy"
             THEN xpc' = "cache" /\ delResult' = "none"
             ELSE xpc' = "idle" /\
                  delResult' = (IF Failed(ret) THEN "error" ELSE "ok")
    /\ UNCHANGED <<baseVars, getVars, opVars, parseVars, lateVars, ifVars>>

\* lines 826-830: rtnl_class_alloc_cache fails
DelTCCacheError ==
    /\ xpc = "cache"
    /\ xpc' = "idle"
    /\ delResult' = "error"
    /\ UNCHANGED <<baseVars, getVars, opVars, parseVars, lateVars, ifVars, Classes, handle, handles, di, snapshot, issued>>

\* lines 826-842: the cache is filled and the handles are collected from it
DelTCCollect ==
    /\ xpc = "cache"
    /\ snapshot' = Classes
    /\ handles' = Collect(Classes, <<handle>>, 1)
    /\ di' = 1
    /\ xpc' = "del"
    /\ UNCHANGED <<baseVars, getVars, opVars, parseVars, lateVars, ifVars, Classes, handle, delResult, issued>>

\* lines 844-850 and 853-857: one delete of the cascade; a failure breaks
\* the loop and is returned, the last delete ends DelTC
DelTCDelete ==
    /\ xpc = "del"
    /\ LET h == handles[DelPosition(handles, di)] IN
       \E ret \in DeleteResults(h) :
          /\ Classes' = AfterDelete(h, ret)
          /\ issued' = Append(issued, [h |-> h, ret |-> ret])
          /\ IF Failed(ret)
             THEN xpc' = "idle" /\ delResult' = "error" /\ di' = di
             ELSE IF di = Len(handles)
             THEN xpc' = "idle" /\ delResult' = "ok" /\ di' = di
             ELSE xpc' = "del" /\ delResult' = delResult /\ di' = di + 1
    /\ UNCHANGED <<baseVars, getVars, opVars, parseVars, lateVars, ifVars, handle, handles, snapshot>>

\* another actor removes a leaf class while the cascade runs
KernelDelete(h) ==
    /\ xpc \in {"cache", "del"}
    /\ Classes[h] # NoParent
    /\ Children(Classes, h) = {}
    /\ Classes' = [Classes EXCEPT ![h] = NoParent]
    /\ UNCHANGED <<baseVars, getVars, opVars, parseVars, lateVars, ifVars, xpc, handle, handles, di, delResult,
                   snapshot, issued>>

DelNext ==
    \/ DelTCCacheError
    \/ DelTCCollect
    \/ DelTCDelete
    \/ \E h \in Handles :
          \/ DelTC(h)
          \/ KernelDelete(h)

\* any forest of classes on the device, DelTC not called yet
InitDel ==
    /\ NatUnset /\ RegInit /\ DevInit /\ ClsInit /\ TcInit /\ GetInit /\ OpInit /\ ParseInit /\ IfInit /\ LateInit
    /\ Classes \in ClassTrees
    /\ DelIdle

SpecDel == InitDel /\ [][DelNext]_vars

(***************************************************************************)
(* DelTC claims.                                                           *)
(***************************************************************************)
Descendants(cls, h) ==
    {x \in Handles : \E n \in 1..NumClasses : Up(cls, x, n) = h}

\* the deletes issued after the first attempt
Cascade == Tail(issued)
Subtree == {handle} \cup Descendants(snapshot, handle)

\* C22: when the class is busy the handles come from one snapshot of the
\* device's classes, the requested handle and each of its descendants once;
\* every delete of the cascade comes after the deletes of all descendants
\* of its class in the snapshot and the requested handle comes last; when
\* every delete succeeded or reported not-found, no class of the subtree
\* remains and DelTC returns success.
C22_DescendantsFirst ==
    handles # <<>> =>
        /\ {handles[j] : j \in 1..Len(handles)} = Subtree
        /\ Len(handles) = Cardinality(Subtree)
        /\ \A k \in 1..Len(Cascade) :
              /\ Descendants(snapshot, Cascade[k].h)
                    \subseteq {Cascade[j].h : j \in 1..(k - 1)}
              /\ Cascade[k].h = handle => k = Len(handles)
        /\ (/\ xpc = "idle"
            /\ Len(Cascade) = Len(handles)
            /\ \A k \in 1..Len(Cascade) : Cascade[k].ret \in {"ok", "notfound"})
              => /\ delResult = "ok"
                 /\ \A x \in Subtree : Classes[x] = NoParent

\* C22 witness: DelTC returned success after it deleted a class, its child
\* and its grandchild, the grandchild first.
C22_Witness ==
    /\ xpc = "idle" /\ delResult = "ok"
    /\ Len(Cascade) = 3
    /\ snapshot[Cascade[1].h] = Cascade[2].h
    /\ snapshot[Cascade[2].h] = Cascade[3].h
    /\ \A k \in 1..3 : Cascade[k].ret = "ok"

\* C36: for a snapshot whose parent relation has no cycle the collection of
\* DelTC ends, and the handles it leaves are the requested handle first and
\* then each of its descendants in the snapshot exactly once, every class
\* at a later position than its parent.
C36_CollectOnceAfterParent ==
    xpc = "del" =>
        /\ Len(handles) \in 1..NumClasses
        /\ handles[1] = handle
        /\ \A j, k \in 1..Len(handles) : j # k => handles[j] # handles[k]
        /\ {handles[j] : j \in 1..Len(handles)}
              = {handle} \cup Descendants(snapshot, handle)
        /\ \A j \in 2..Len(handles) :
              \E k \in 1..(j - 1) : handles[k] = snapshot[handles[j]]

\* C36 witness: the collection ended with the requested class, its child and
\* the child of that child.
C36_Witness ==
    /\ xpc = "del" /\ di = 1
    /\ Len(handles) = 3
    /\ snapshot[handles[2]] = handle
    /\ snapshot[handles[3]] = handles[2]

\* C23: a delete that reports not-found counts as success, the first
\* attempt as well as a delete of the cascade, and DelTC goes on; any other
\* failure is the last delete DelTC issues: it returns an error, removes no
\* class after it, and the handles not yet processed, the requested one
\* included, are not touched.
C23_NotFoundContinuesErrorStops ==
    /\ [](/\ \A k \in 1..(Len(issued) - 1) :
                issued[k].ret \in (IF k = 1 THEN {"busy"} ELSE {"ok", "notfound"})
          /\ (xpc = "idle" /\ issued # <<>>) =>
                LET last == issued[Len(issued)] IN
                IF last.ret \in {"ok", "notfound"}
                THEN /\ delResult = "ok"
                     /\ Len(issued) \in {1, 1 + Len(handles)}
                ELSE /\ delResult = "error"
                     /\ Len(Cascade) < Len(handles) =>
                           handle \notin {Cascade[k].h : k \in 1..Len(Cascade)})
    /\ [][\A x \in Handles :
             (Classes[x] # NoParent /\ Classes'[x] = NoParent /\ ~KernelDelete(x))
                 => /\ issued' # <<>>
                    /\ issued'[Len(issued')] = [h |-> x, ret |-> "ok"]
                    /\ Len(issued') = 1 \/ issued' = Append(issued, [h |-> x, ret |-> "ok"])]_vars

\* C23 witness: a delete of the cascade reported not-found, DelTC went on
\* and a later delete failed with the requested class still in the kernel.
C23_Witness ==
    /\ xpc = "idle" /\ delResult = "error"
    /\ Len(Cascade) >= 2
    /\ Cascade[Len(Cascade) - 1].ret = "notfound"
    /\ Cascade[Len(Cascade)].ret = "error"
    /\ Classes[handle] # NoParent

(***************************************************************************)
(* CreateTC (lines 860-885) and DestroyTC (lines 887-902) as loops over    *)
(* the device list: AddTC or DelTC on every device not skipped, each of    *)
(* which succeeds or fails.  The error of the device at position k is k.   *)
(***************************************************************************)
OpNames == <<"eth0", "eth1", "eth2", "eth3">>

\* device lists with every mix of managed and unmanaged devices
DeviceLists ==
    {[j \in 1..n |-> [Name |-> OpNames[j], Index |-> j, Managed |-> m[j],
                      Prepared |-> m[j], Missing |-> FALSE]] :
        n \in 0..MaxDevices, m \in [1..MaxDevices -> BOOLEAN]}

\* a loop that keeps the latest error
Remember_Latest(res, err) == IF err # Success THEN err ELSE res

\* lines 878-882, 895-899: if (error) { ...; if (!result) result = error; }
Remember(res, err) == IF err # Success /\ res = Success THEN err ELSE res

\* TError error, result; the loop begins
OpStart(name) ==
    /\ opc = "idle"
    /\ op' = name
    /\ opc' = "loop"
    /\ opos' = 1
    /\ opResult' = Success
    /\ attempts' = <<>>
    /\ returned' = NoReturn
    /\ UNCHANGED <<baseVars, getVars, delVars, parseVars, lateVars, ifVars>>

\* one iteration: an unmanaged device is skipped, AddTC / DelTC on a
\* managed one succeeds or fails
OpNext ==
    /\ opc = "loop"
    /\ opos <= Len(Devices)
    /\ opos' = opos + 1
    /\ IF ~Devices[opos].Managed
       THEN UNCHANGED <<opResult, attempts>>
       ELSE \E err \in {Success, opos} :
               /\ attempts' = Append(attempts, [dev |-> opos, error |-> err])
               /\ opResult' = Remember(opResult, err)
    /\ UNCHANGED <<baseVars, getVars, delVars, parseVars, lateVars, ifVars, op, opc, returned>>

\* return result
OpReturn ==
    /\ opc = "loop"
    /\ opos > Len(Devices)
    /\ opc' = "idle"
    /\ returned' = opResult
    /\ UNCHANGED <<baseVars, getVars, delVars, parseVars, lateVars, ifVars, op, opos, opResult, attempts>>

OpStep ==
    \/ OpStart("CreateTC")
    \/ OpStart("DestroyTC")
    \/ OpNext
    \/ OpReturn

\* any device list, no call made yet
InitOp ==
    /\ NatUnset /\ RegInit /\ ClsInit /\ TcInit /\ GetInit /\ DelInit /\ OpInit /\ ParseInit /\ IfInit /\ LateInit
    /\ DevIdle
    /\ Devices \in DeviceLists

SpecOp == InitOp /\ [][OpStep]_vars

\* the positions of the managed devices, in list order
RECURSIVE ManagedPositions(_)
ManagedPositions(j) ==
    IF j > Len(Devices) THEN <<>>
    ELSE (IF Devices[j].Managed THEN <<j>> ELSE <<>>) \o ManagedPositions(j + 1)

\* C24: CreateTC and DestroyTC attempt the operation once on every managed
\* device, in list order, whatever happened on earlier devices; they return
\* success iff every attempt succeeded and else the error of the first
\* device that failed.
C24_AllDevicesFirstError ==
    returned # NoReturn =>
        LET failing == {k \in 1..Len(attempts) : attempts[k].error # Success} IN
        /\ [k \in 1..Len(attempts) |-> attempts[k].dev] = ManagedPositions(1)
        /\ (returned = Success) <=> (failing = {})
        /\ failing # {} => returned = attempts[Min(failing)].error

\* C24 witness: the call failed on two devices, went on to a third after
\* the first failure and returned the first error.
C24_Witness ==
    /\ returned # NoReturn
    /\ Len(attempts) = 3
    /\ attempts[1].error # Success
    /\ attempts[2].error = Success
    /\ attempts[3].error # Success
    /\ returned = attempts[1].error

(***************************************************************************)
(* Config tables (TUintMap) and TNetworkDevice::GetConfig (lines 72-81).   *)
(* A table is a sequence of entries with distinct patterns.                *)
(***************************************************************************)
INT32_MAX == 2147483647

\* INT32_MAX + 1
AboveInt32 == [hi |-> 1, lo |-> 0]

TcNames == {"eth0", "eth1"}
Patterns == {"eth0", "eth*", "default"}
ConfigRates == {U64(n) : n \in 0..MaxRate} \cup {AboveInt32}

\* StringMatch(name, pattern): glob match, for the patterns of the model
StringMatch(name, pattern) ==
    \/ pattern = name
    \/ pattern = "eth*" /\ name \in {"eth0", "eth1"}

Entries == [pattern : Patterns, value : ConfigRates]
Tables ==
    {t \in UNION {[1..n -> Entries] : n \in 0..Cardinality(Patterns)} :
        \A i, j \in 1..Len(t) : i # j => t[i].pattern # t[j].pattern}

\* GetConfig that looks for the key "default" before the patterns
GetConfig_DefaultFirst(cfg, name, def) ==
    LET hits == {j \in 1..Len(cfg) : StringMatch(name, cfg[j].pattern)}
        dflt == {j \in 1..Len(cfg) : cfg[j].pattern = "default"}
    IN  IF dflt # {} THEN cfg[Min(dflt)].value
        ELSE IF hits # {} THEN cfg[Min(hits)].value
        ELSE def

\* TNetworkDevice::GetConfig(cfg, def): the first entry whose pattern
\* matches Name, else cfg.find("default"), else def
GetConfig(cfg, name, def) ==
    LET hits == {j \in 1..Len(cfg) : StringMatch(name, cfg[j].pattern)}
        dflt == {j \in 1..Len(cfg) : cfg[j].pattern = "default"}
    IN  IF hits # {} THEN cfg[Min(hits)].value
        ELSE IF dflt # {} THEN cfg[Min(dflt)].value
        ELSE def

GetNames == TcNames \cup {"lo"}
GetDefs == {U64(0), U64(INT32_MAX)}

\* dev.GetConfig(DeviceRate, def) for the device called name
GetConfigCall(name, def) ==
    /\ gName' = name
    /\ gDef' = def
    /\ gGot' = GetConfig(DeviceRate, name, def)
    /\ UNCHANGED <<natVars, regVars, devVars, clsVars, tcVars, delVars, opVars, parseVars, lateVars, ifVars>>

GetNext == \E name \in GetNames, def \in GetDefs : GetConfigCall(name, def)

\* any table over the patterns, GetConfig not called yet
InitGet ==
    /\ NatUnset /\ RegInit /\ DevInit /\ ClsInit /\ GetInit /\ DelInit /\ OpInit /\ ParseInit /\ IfInit /\ LateInit
    /\ DeviceRate \in Tables
    /\ TcIdle

SpecGet == InitGet /\ [][GetNext]_vars

\* C25: GetConfig returns the value of the first entry, in table order,
\* whose pattern matches the name; with no match the value under the key
\* "default"; without that key the caller's default.
C25_GetConfigFirstMatch ==
    gGot # NoVal =>
        LET Matches(j) == StringMatch(gName, DeviceRate[j].pattern) IN
        /\ \A j \in 1..Len(DeviceRate) :
              (Matches(j) /\ \A i \in 1..(j - 1) : ~Matches(i))
                  => gGot = DeviceRate[j].value
        /\ (\A j \in 1..Len(DeviceRate) : ~Matches(j)) =>
              /\ \A j \in 1..Len(DeviceRate) :
                    DeviceRate[j].pattern = "default" => gGot = DeviceRate[j].value
              /\ (\A j \in 1..Len(DeviceRate) : DeviceRate[j].pattern # "default")
                    => gGot = gDef

\* C25 witness: two patterns with different values match the name, a
\* "default" entry with a third value stands before them, and the value of
\* the first matching pattern was returned.
C25_Witness ==
    /\ Len(DeviceRate) = 3
    /\ DeviceRate[1].pattern = "default"
    /\ gName = "eth0"
    /\ Cardinality({DeviceRate[j].value : j \in 1..3}) = 3
    /\ gGot = DeviceRate[2].value

(***************************************************************************)
(* AddTC (lines 742-802): the rate and ceil of the HTB class it adds on a  *)
(* device, bounded by the device's entry in network.device_rate.           *)
(***************************************************************************)
\* the rates and ceils AddTC is called with (uint64_t)
Rates == {U64(n) : n \in 0..MaxRate} \cup {U64(INT32_MAX), AboveInt32}

\* lines 767-772
AddTCRate(rate, max_rate) ==
    LET r == IF rate = U64(0) THEN U64(1) ELSE rate
    IN  IF Gt(r, max_rate) THEN max_rate ELSE r

\* lines 779-780
AddTCCeil(ceil, max_rate) ==
    IF ceil = U64(0) \/ Gt(ceil, max_rate) THEN max_rate ELSE ceil

\* AddTC succeeds: rtnl_class_add with NLM_F_CREATE | NLM_F_REPLACE
AddTC(name, rate, ceil) ==
    LET max_rate == GetConfig(DeviceRate, name, U64(INT32_MAX)) IN
    /\ tcDev' = name
    /\ tcArgs' = [rate |-> rate, ceil |-> ceil]
    /\ tcClass' = [rate |-> AddTCRate(rate, max_rate),
                   ceil |-> AddTCCeil(ceil, max_rate)]
    /\ UNCHANGED <<natVars, regVars, devVars, clsVars, restVars, DeviceRate>>

\* AddTC fails (rtnl_class_alloc, rtnl_tc_set_kind or rtnl_class_add): no
\* class is added
AddTCError(name) ==
    /\ tcDev' = name
    /\ tcArgs' = NoArgs
    /\ tcClass' = NoClass
    /\ UNCHANGED <<natVars, regVars, devVars, clsVars, restVars, DeviceRate>>

TcNext ==
    \E name \in TcNames :
        \/ \E rate, ceil \in Rates : AddTC(name, rate, ceil)
        \/ AddTCError(name)

\* any network.device_rate with at most one entry, no class added yet
InitTC ==
    /\ NatUnset /\ RegInit /\ DevInit /\ ClsInit /\ GetInit /\ DelInit /\ OpInit /\ ParseInit /\ IfInit /\ LateInit
    /\ DeviceRate \in {t \in Tables : Len(t) <= 1}
    /\ TcIdle

SpecTC == InitTC /\ [][TcNext]_vars

\* C20: the class AddTC adds has rate 1 when the requested rate is 0, the
\* device maximum when the requested rate exceeds it and the requested rate
\* otherwise, and a ceil equal to the device maximum when the requested ceil
\* is 0 or exceeds the maximum and the requested ceil otherwise.
C20_EffectiveRateAndCeil ==
    tcArgs # NoArgs =>
        LET max_rate == GetConfig(DeviceRate, tcDev, U64(INT32_MAX)) IN
        /\ tcClass.rate = (IF tcArgs.rate = U64(0) THEN U64(1)
                           ELSE IF Gt(tcArgs.rate, max_rate) THEN max_rate
                           ELSE tcArgs.rate)
        /\ tcClass.ceil = (IF tcArgs.ceil = U64(0) \/ Gt(tcArgs.ceil, max_rate)
                           THEN max_rate
                           ELSE tcArgs.ceil)

\* C21: the rate and the ceil AddTC passes to the kernel API are at most
\* INT32_MAX, whatever the device's entry in network.device_rate and the
\* requested rate and ceil.
C21_RateFitsInt32 ==
    tcArgs # NoArgs =>
        /\ ~Gt(tcClass.rate, U64(INT32_MAX))
        /\ ~Gt(tcClass.ceil, U64(INT32_MAX))

(***************************************************************************)
(* TNetCfg::ParseNet (lines 917-1143).  A line is the sequence of fields   *)
(* SplitEscapedString yields; the loop takes one line per step.            *)
(***************************************************************************)
\* the lines the specifications of the model are made of
LineSet ==
    {<<>>, <<"none">>, <<"inherited">>, <<"host">>, <<"bogus">>,
     <<"steal", "eth2">>, <<"container", "a">>, <<"netns", "b">>,
     <<"autoconf", "eth0">>,
     <<"macvlan", "m", "eth0">>, <<"macvlan", "m", "eth0", "bogus">>,
     <<"ipvlan", "m", "eth0">>,
     <<"veth", "eth0", "br0">>, <<"veth", "eth1", "br0">>, <<"veth", "eth1">>,
     <<"L3", "eth0">>,
     <<"MTU", "eth0", "9000">>, <<"MTU", "eth1", "9000">>, <<"MTU", "eth0", "x">>}

Specs == UNION {[1..n -> LineSet] : n \in 0..MaxLines}

\* StringToInt, TNlLink::ValidMacVlanType, ValidIpVlanMode, ValidMacAddr and
\* TPath::Exists on the tokens of the model
NotInt == -1
StringToInt(tok) ==
    IF tok = "9000" THEN 9000 ELSE IF tok = "1500" THEN 1500 ELSE NotInt
StringToIntError == "InvalidValue"
ValidMacVlanType(type) == type \in {"bridge", "private", "vepa", "passthru"}
ValidIpVlanMode(mode) == mode \in {"l2", "l3"}
ValidMacAddr(hw) == hw = "02:00:00:00:00:01"
NetnsExists(name) == name = "b"

\* the loop goes on with the next line, or ParseNet returns ret
Continue(cfg) == [cfg |-> cfg, ret |-> ""]
Return(cfg, ret) == [cfg |-> cfg, ret |-> ret]

\* settings[k - 1] if the line has it, else def
Setting(settings, k, def) == IF Len(settings) >= k THEN settings[k] ELSE def

\* position of the first descriptor of the list called name, 0 if none
FirstNamed(list, name) ==
    LET hits == {j \in 1..Len(list) : list[j].Name = name}
    IN  IF hits = {} THEN 0 ELSE Min(hits)

\* link.Mtu = mtu for the descriptor at position j of the list called field
SetMtu(cfg, field, j, mtu) ==
    [cfg EXCEPT ![field] = [@ EXCEPT ![j] = [@ EXCEPT !.Mtu = mtu]]]

\* an MTU branch that looks through the veth list first
MtuSearchOrder_VethFirst == <<"Veth", "L3lan", "MacVlan", "IpVlan">>

\* lines 1087-1113: the lists in the order the MTU branch looks through them
MtuSearchOrder == <<"L3lan", "Veth", "MacVlan", "IpVlan">>

\* an MTU branch that sets the Mtu and goes on with the next line
ParseMtu_Continue(cfg, settings) ==
    IF Len(settings) # 3 THEN Return(cfg, "InvalidValue")
    ELSE IF StringToInt(settings[3]) = NotInt THEN Return(cfg, StringToIntError)
    ELSE LET found == {k \in 1..4 : FirstNamed(cfg[MtuSearchOrder[k]], settings[2]) # 0}
         IN  IF found = {} THEN Return(cfg, "InvalidValue")
             ELSE LET field == MtuSearchOrder[Min(found)] IN
                  Continue(SetMtu(cfg, field, FirstNamed(cfg[field], settings[2]),
                                  StringToInt(settings[3])))

\* lines 1079-1116: the MTU branch
ParseMtu(cfg, settings) ==
    IF Len(settings) # 3 THEN Return(cfg, "InvalidValue")
    ELSE IF StringToInt(settings[3]) = NotInt THEN Return(cfg, StringToIntError)
    ELSE LET found == {k \in 1..4 : FirstNamed(cfg[MtuSearchOrder[k]], settings[2]) # 0}
         IN  IF found = {} THEN Return(cfg, "InvalidValue")
             ELSE LET field == MtuSearchOrder[Min(found)] IN
                  Return(SetMtu(cfg, field, FirstNamed(cfg[field], settings[2]),
                                StringToInt(settings[3])),
                         "Success")

\* lines 953-991
ParseMacVlan(cfg, settings) ==
    IF Len(settings) < 3 THEN Return(cfg, "InvalidValue")
    ELSE IF Len(settings) > 3 /\ ~ValidMacVlanType(settings[4])
         THEN Return(cfg, "InvalidValue")
    ELSE IF Len(settings) > 4 /\ StringToInt(settings[5]) = NotInt
         THEN Return(cfg, "InvalidValue")
    ELSE IF Len(settings) > 5 /\ ~ValidMacAddr(settings[6])
         THEN Return(cfg, "InvalidValue")
    ELSE Continue([cfg EXCEPT !.MacVlan = Append(@,
            [Master |-> settings[2], Name |-> settings[3],
             Type |-> Setting(settings, 4, "bridge"),
             Hw |-> Setting(settings, 6, ""),
             Mtu |-> IF Len(settings) > 4 THEN StringToInt(settings[5]) ELSE -1])])

\* lines 992-1021
ParseIpVlan(cfg, settings) ==
    IF Len(settings) < 3 THEN Return(cfg, "InvalidValue")
    ELSE IF Len(settings) > 3 /\ ~ValidIpVlanMode(settings[4])
         THEN Return(cfg, "InvalidValue")
    ELSE IF Len(settings) > 4 /\ StringToInt(settings[5]) = NotInt
         THEN Return(cfg, "InvalidValue")
    ELSE Continue([cfg EXCEPT !.IpVlan = Append(@,
            [Master |-> settings[2], Name |-> settings[3],
             Mode |-> Setting(settings, 4, "l2"),
             Mtu |-> IF Len(settings) > 4 THEN StringToInt(settings[5]) ELSE -1])])

\* lines 1022-1052; Peer is "portove-<Id>-<idx>"
ParseVeth(cfg, settings, i) ==
    IF Len(settings) < 3 THEN Return(cfg, "InvalidValue")
    ELSE IF Len(settings) > 3 /\ StringToInt(settings[4]) = NotInt
         THEN Return(cfg, "InvalidValue")
    ELSE IF Len(settings) > 4 /\ ~ValidMacAddr(settings[5])
         THEN Return(cfg, "InvalidValue")
    ELSE Continue([cfg EXCEPT !.Veth = Append(@,
            [Name |-> settings[2], Bridge |-> settings[3],
             Hw |-> Setting(settings, 5, ""),
             Mtu |-> IF Len(settings) > 3 THEN StringToInt(settings[4]) ELSE -1,
             Peer |-> i])])

\* lines 936-950: the first field, a lone "host" reads as "inherited"
LineType(settings) ==
    IF settings = <<>> THEN ""
    ELSE IF settings = <<"host">> THEN "inherited" ELSE settings[1]

\* lines 936-1131: the body of the loop for one line
ParseLine(cfg, settings, i) ==
    IF settings = <<>> THEN Return(cfg, "InvalidValue")
    ELSE
    LET type == LineType(settings) IN
    CASE type = "none" -> Continue(cfg)
      [] type = "inherited" ->
            Continue([cfg EXCEPT !.NewNetNs = FALSE, !.Inherited = TRUE])
      [] type \in {"steal", "host"} ->
            IF Len(settings) # 2 THEN Return(cfg, "InvalidValue")
            ELSE Continue([cfg EXCEPT !.Steal = Append(@, settings[2])])
      [] type = "container" ->
            IF Len(settings) # 2 THEN Return(cfg, "InvalidValue")
            ELSE Continue([cfg EXCEPT !.NewNetNs = FALSE, !.NetCtName = settings[2]])
      [] type = "macvlan" -> ParseMacVlan(cfg, settings)
      [] type = "ipvlan" -> ParseIpVlan(cfg, settings)
      [] type = "veth" -> ParseVeth(cfg, settings, i)
      [] type = "L3" ->
            Continue([cfg EXCEPT !.L3lan = Append(@,
                [Name |-> Setting(settings, 2, "eth0"), Nat |-> FALSE, Mtu |-> -1,
                 Master |-> Setting(settings, 3, "")])])
      [] type = "NAT" ->
            Continue([cfg EXCEPT !.L3lan = Append(@,
                [Name |-> Setting(settings, 2, "eth0"), Nat |-> TRUE, Mtu |-> -1,
                 Master |-> ""])])
      [] type = "MTU" -> ParseMtu(cfg, settings)
      [] type = "autoconf" ->
            IF Len(settings) # 2 THEN Return(cfg, "InvalidValue")
            ELSE Continue([cfg EXCEPT !.Autoconf = Append(@, settings[2])])
      [] type = "netns" ->
            IF Len(settings) # 2 THEN Return(cfg, "InvalidValue")
            ELSE IF ~NetnsExists(settings[2]) THEN Return(cfg, "InvalidValue")
            ELSE Continue([cfg EXCEPT !.NewNetNs = FALSE, !.NetNsName = settings[2]])
      [] OTHER -> Return(cfg, "InvalidValue")

\* lines 1136-1142: the test after the loop
ParseCheck(cfg, n) ==
    LET single == (IF n THEN 1 ELSE 0) + (IF cfg.Inherited THEN 1 ELSE 0)
        mixed  == Len(cfg.Steal) + Len(cfg.MacVlan) + Len(cfg.IpVlan)
                  + Len(cfg.Veth) + Len(cfg.L3lan)
    IN  IF single > 1 \/ (single = 1 /\ mixed > 0) THEN "InvalidValue" ELSE "Success"

\* lines 917-924: Reset(), and an empty specification is refused; Reset
\* leaves Autoconf alone
ParseNet ==
    /\ ppc = "start"
    /\ NetCfg' = [Reset EXCEPT !.Autoconf = NetCfg.Autoconf]
    /\ none' = FALSE
    /\ idx' = 0
    /\ ncalls' = ncalls + 1
    /\ IF lines = <<>>
       THEN ppc' = "done" /\ parsed' = "InvalidValue" /\ lineNo' = lineNo
       ELSE ppc' = "loop" /\ parsed' = parsed /\ lineNo' = 1
    /\ UNCHANGED <<baseVars, getVars, delVars, opVars, ifVars, lateVars, lines>>

\* one iteration of the loop over the lines
ParseNetLine ==
    /\ ppc = "loop"
    /\ lineNo <= Len(lines)
    /\ LET r == ParseLine(NetCfg, lines[lineNo], idx) IN
       /\ NetCfg' = r.cfg
       /\ none' = (none \/ LineType(lines[lineNo]) = "none")
       /\ idx' = IF Len(r.cfg.Veth) > Len(NetCfg.Veth) THEN idx + 1 ELSE idx
       /\ IF r.ret = ""
          THEN lineNo' = lineNo + 1 /\ UNCHANGED <<ppc, parsed>>
          ELSE lineNo' = lineNo /\ ppc' = "done" /\ parsed' = r.ret
    /\ UNCHANGED <<baseVars, getVars, delVars, opVars, ifVars, lateVars, lines, ncalls>>

\* after the last line: the none/inherited test and the return
ParseNetEnd ==
    /\ ppc = "loop"
    /\ lineNo > Len(lines)
    /\ ppc' = "done"
    /\ parsed' = ParseCheck(NetCfg, none)
    /\ UNCHANGED <<baseVars, getVars, delVars, opVars, ifVars, lateVars, lines, NetCfg, none, idx, lineNo, ncalls>>

ParseNext ==
    \/ ParseNet
    \/ ParseNetLine
    \/ ParseNetEnd

\* any specification of up to MaxLines lines
InitParse ==
    /\ NatUnset /\ RegInit /\ DevInit /\ ClsInit /\ TcInit /\ GetInit /\ DelInit /\ OpInit
    /\ IfInit /\ LateInit
    /\ lines \in Specs
    /\ ParseIdle

SpecParse == InitParse /\ [][ParseNext]_vars

\* the line types of the specification
Has(type) == \E j \in 1..Len(lines) : LineType(lines[j]) = type
Structural == {"steal", "host", "macvlan", "ipvlan", "veth", "L3", "NAT"}

\* C26: ParseNet rejects every specification in which both none and inherited
\* appear, or in which none or inherited appears together with a steal,
\* macvlan, ipvlan, veth, L3 or NAT line, whatever other lines it holds.
C26_NoneInheritedExclusive ==
    (/\ ppc = "done"
     /\ \/ Has("none") /\ Has("inherited")
        \/ (Has("none") \/ Has("inherited")) /\ \E type \in Structural : Has(type))
    => parsed # "Success"

\* lines 1456-1520: the branch PrepareNetwork takes for a container with a parent
PrepareNetwork(cfg, parent) ==
    IF cfg.NewNetNs THEN "NewNetNs"
    ELSE IF ~parent THEN "host"
    ELSE IF cfg.Inherited THEN "Inherited"
    ELSE IF cfg.NetNsName # "" THEN "NetNsName"
    ELSE IF cfg.NetCtName # "" THEN "NetCtName"
    ELSE ""

\* the namespace-acquisition modes a configuration records
Modes(cfg) ==
    {m \in {"NewNetNs", "Inherited", "NetNsName", "NetCtName"} :
        IF m \in {"NewNetNs", "Inherited"} THEN cfg[m] ELSE cfg[m] # ""}

\* C27: after every successful ParseNet exactly one of NewNetNs, Inherited,
\* NetNsName non-empty and NetCtName non-empty holds, and PrepareNetwork acts
\* on that mode.
C27_ExactlyOneMode ==
    (ppc = "done" /\ parsed = "Success")
    => /\ Cardinality(Modes(NetCfg)) = 1
       /\ PrepareNetwork(NetCfg, TRUE) \in Modes(NetCfg)

\* the malformed lines: unknown first token, too few or too many fields, a
\* type, mode, number or hardware address that fails validation
Malformed(settings) ==
    LET type == LineType(settings) n == Len(settings) IN
    CASE type = "" -> FALSE
      [] type \in {"none", "inherited", "L3", "NAT"} -> FALSE
      [] type \in {"steal", "host", "container", "autoconf", "netns"} -> n # 2
      [] type = "macvlan" ->
            \/ n < 3
            \/ n > 3 /\ ~ValidMacVlanType(settings[4])
            \/ n > 4 /\ StringToInt(settings[5]) = NotInt
            \/ n > 5 /\ ~ValidMacAddr(settings[6])
      [] type = "ipvlan" ->
            \/ n < 3
            \/ n > 3 /\ ~ValidIpVlanMode(settings[4])
            \/ n > 4 /\ StringToInt(settings[5]) = NotInt
      [] type = "veth" ->
            \/ n < 3
            \/ n > 3 /\ StringToInt(settings[4]) = NotInt
            \/ n > 4 /\ ~ValidMacAddr(settings[5])
      [] type = "MTU" -> n # 3 \/ StringToInt(settings[3]) = NotInt
      [] OTHER -> TRUE

\* C28: ParseNet rejects with an invalid-value error an empty specification
\* and every specification holding a line with an unknown first token, a
\* wrong number of fields, or a type, mode, MTU number or hardware address
\* that fails validation.
C28_MalformedRejected ==
    (/\ ppc = "done"
     /\ lines = <<>> \/ \E j \in 1..Len(lines) : Malformed(lines[j]))
    => parsed = "InvalidValue"

\* a well-formed MTU line is being parsed
AtMtuLine ==
    /\ ppc = "loop"
    /\ lineNo <= Len(lines)
    /\ LineType(lines[lineNo]) = "MTU"
    /\ ~Malformed(lines[lineNo])

\* the descriptors called name, as <<place of the list in the search, position>>
Named(cfg, name) ==
    {p \in (1..4) \X (1..MaxLines) :
        /\ p[2] <= Len(cfg[<<"L3lan", "Veth", "MacVlan", "IpVlan">>[p[1]]])
        /\ cfg[<<"L3lan", "Veth", "MacVlan", "IpVlan">>[p[1]]][p[2]].Name = name}

\* p comes before q in the search
Before(p, q) == p[1] < q[1] \/ (p[1] = q[1] /\ p[2] <= q[2])

\* C29: an MTU <name> <value> line sets the Mtu of exactly one descriptor, the
\* first one called <name> in the L3 list, else in the veth list, else in the
\* macvlan list, else in the ipvlan list, and changes nothing else; with no
\* descriptor of that name the specification is rejected.
C29_MtuFirstMatchOnly ==
    [][(AtMtuLine /\ ParseNetLine) =>
        LET name   == lines[lineNo][2]
            value  == StringToInt(lines[lineNo][3])
            named  == Named(NetCfg, name)
            fields == <<"L3lan", "Veth", "MacVlan", "IpVlan">>
        IN  IF named = {}
            THEN ppc' = "done" /\ parsed' = "InvalidValue" /\ NetCfg' = NetCfg
            ELSE LET first == CHOOSE p \in named : \A q \in named : Before(p, q) IN
                 /\ \A k \in 1..4 :
                      /\ Len(NetCfg'[fields[k]]) = Len(NetCfg[fields[k]])
                      /\ \A j \in 1..Len(NetCfg[fields[k]]) :
                           NetCfg'[fields[k]][j] =
                               IF <<k, j>> = first
                               THEN [NetCfg[fields[k]][j] EXCEPT !.Mtu = value]
                               ELSE NetCfg[fields[k]][j]
                 /\ \A f \in DOMAIN NetCfg \ {"L3lan", "Veth", "MacVlan", "IpVlan"} :
                      NetCfg'[f] = NetCfg[f]
                 /\ parsed' # "InvalidValue"]_vars

\* C29 witness: veth eth0 and L3 eth0 both parsed, the MTU line for eth0 has
\* set the Mtu of the L3 descriptor and left the veth descriptor alone
C29_Witness ==
    /\ ppc = "done" /\ parsed = "Success"
    /\ Len(NetCfg.L3lan) = 1 /\ NetCfg.L3lan[1].Name = "eth0" /\ NetCfg.L3lan[1].Mtu = 9000
    /\ Len(NetCfg.Veth) = 1 /\ NetCfg.Veth[1].Name = "eth0" /\ NetCfg.Veth[1].Mtu = -1

\* C34: when an MTU line matches a descriptor ParseNet returns success at
\* that line; no later line is parsed, nothing is created or changed for a
\* later line.
C34_MtuMatchReturns ==
    [][/\ (AtMtuLine /\ ParseNetLine /\ Named(NetCfg, lines[lineNo][2]) # {})
          => (ppc' = "done" /\ parsed' = "Success" /\ lineNo' = lineNo)
       /\ ppc = "done" => UNCHANGED <<NetCfg, lineNo, parsed, ppc>>]_vars

\* C34 witness: L3 eth0, MTU eth0 9000, veth eth1 br0: ParseNet has returned
\* success at the second line and there is no veth descriptor
C34_Witness ==
    /\ lines = <<(<<"L3", "eth0">>), <<"MTU", "eth0", "9000">>, <<"veth", "eth1", "br0">>>>
    /\ ppc = "done" /\ parsed = "Success" /\ lineNo = 2
    /\ NetCfg.Veth = <<>>
    /\ NetCfg.L3lan[1].Mtu = 9000

(***************************************************************************)
(* ParseNet called again on the same TNetCfg, as when the network property *)
(* of a workload is set again.                                             *)
(***************************************************************************)
AgainLines ==
    {<<"autoconf", "eth0">>, <<"veth", "eth0", "br0">>, <<"inherited">>,
     <<"container", "a">>, <<"L3", "eth0">>, <<"MTU", "eth0", "9000">>, <<"bogus">>}
AgainSpecs == UNION {[1..n -> AgainLines] : n \in 0..2}

\* the next call of ParseNet, with any specification
ParseAgain ==
    /\ ppc = "done"
    /\ ncalls < MaxCalls
    /\ lines' \in AgainSpecs
    /\ ppc' = "start"
    /\ parsed' = ""
    /\ UNCHANGED <<baseVars, getVars, delVars, opVars, ifVars, lateVars, NetCfg, none, idx, lineNo, ncalls>>

AgainNext ==
    \/ ParseNext
    \/ ParseAgain

InitAgain ==
    /\ NatUnset /\ RegInit /\ DevInit /\ ClsInit /\ TcInit /\ GetInit /\ DelInit /\ OpInit
    /\ IfInit /\ LateInit
    /\ lines \in AgainSpecs
    /\ ParseIdle

SpecAgain == InitAgain /\ [][AgainNext]_vars

\* the loop of ParseNet from line n on, as a function of the lines
RECURSIVE ParseLines(_, _, _, _)
ParseLines(cfg, ls, n, i) ==
    IF n > Len(ls) THEN cfg
    ELSE LET r == ParseLine(cfg, ls[n], i) IN
         IF r.ret # "" THEN r.cfg
         ELSE ParseLines(r.cfg, ls, n + 1,
                         IF Len(r.cfg.Veth) > Len(cfg.Veth) THEN i + 1 ELSE i)

\* what ParseNet leaves in a TNetCfg that never parsed anything
FreshParse(ls) == ParseLines(Reset, ls, 1, 0)

\* C35: after a successful ParseNet the steal, macvlan, ipvlan, veth, L3,
\* autoconf, namespace-name and mode fields are those a fresh TNetCfg gets
\* from the same lines, whatever the TNetCfg parsed before.
C35_ParseDependsOnLinesOnly ==
    (ppc = "done" /\ parsed = "Success") => NetCfg = FreshParse(lines)

(***************************************************************************)
(* TNetCfg::ConfigureInterfaces (lines 1311-1451) with ConfigureVeth       *)
(* (1211-1236) for a workload with stolen devices and veth pairs.  Every   *)
(* netlink call succeeds or fails; a failed call makes the function return *)
(* its error.                                                              *)
(***************************************************************************)
Failure == 1

IfNames == {"eth0", "eth1"}
IpAddrs == {"10.0.0.5/24", "10.0.0.6/24"}
GwAddrs == {"10.0.0.1"}

\* vectors of up to MaxEntries entries
Vectors(addrs) ==
    UNION {[1..n -> [Iface : IfNames, Addr : addrs]] : n \in 0..MaxEntries}

\* ParentNet->NewDeviceName("portove-") for the veth at position k
PeerName(k) == <<"portove-0", "portove-1", "portove-2">>[k]

Call(call, link, arg) == [call |-> call, dev |-> link, arg |-> arg]

\* a test that looks at the addresses and gateways only
Found_NoAutoconf(link) ==
    \/ \E j \in 1..Len(ifIpVec) : ifIpVec[j].Iface = link
    \/ \E j \in 1..Len(GwVec) : GwVec[j].Iface = link

\* lines 1412-1422: found
Found(link) ==
    \/ \E j \in 1..Len(ifIpVec) : ifIpVec[j].Iface = link
    \/ \E j \in 1..Len(GwVec) : GwVec[j].Iface = link
    \/ \E j \in 1..Len(NetCfg.Autoconf) : NetCfg.Autoconf[j] = link

\* one call per entry of vec for dev, in the order of vec
EntryCalls(vec, call, link) ==
    LET hits == SelectSeq(vec, LAMBDA e : e.Iface = link)
    IN  [j \in 1..Len(hits) |-> Call(call, link, hits[j].Addr)]

\* lines 1427-1447: the calls the loop makes for one device
DeviceCalls(link) ==
    <<Call("Load", link, ""), Call("Up", link, "")>>
    \o EntryCalls(ifIpVec, "AddAddress", link)
    \o EntryCalls(GwVec, "SetDefaultGw", link)

\* lines 1211-1236: the calls of ConfigureVeth for the veth at position k
VethCalls(k) ==
    LET v == NetCfg.Veth[k] IN
    <<Call("AddVeth", v.Name, PeerName(k))>>
    \o (IF v.Bridge # ""
        THEN <<Call("Load", v.Bridge, ""), Call("Enslave", v.Bridge, PeerName(k))>>
        ELSE <<>>)

\* the calls are made in order until one fails: all of them (failed = 0),
\* or those before the one at position failed
Issue(cs, failed) ==
    /\ kernel' = kernel \o (IF failed = 0 THEN cs ELSE SubSeq(cs, 1, failed - 1))
    /\ IF failed = 0
       THEN UNCHANGED <<ifpc, ifError>>
       ELSE ifpc' = "done" /\ ifError' = Failure

\* lines 1317-1323: one stolen device moves into the target namespace
ConfigureSteal ==
    /\ ifpc = "links"
    /\ lpos <= Len(NetCfg.Steal)
    /\ \E failed \in 0..1 :
        /\ Issue(<<Call("ChangeNs", NetCfg.Steal[lpos], "")>>, failed)
        /\ nsLinks' = IF failed = 0 THEN Append(nsLinks, NetCfg.Steal[lpos]) ELSE nsLinks
    /\ lpos' = lpos + 1
    /\ UNCHANGED <<baseVars, getVars, delVars, opVars, parseVars, lateVars, NetUp, ifIpVec, GwVec, ifDevices>>

\* lines 1371-1376 and 1211-1236: one veth pair, its peer enslaved to the bridge
ConfigureVeth ==
    /\ ifpc = "links"
    /\ lpos > Len(NetCfg.Steal)
    /\ lpos <= Len(NetCfg.Steal) + Len(NetCfg.Veth)
    /\ LET k == lpos - Len(NetCfg.Steal) IN
       \E failed \in 0..Len(VethCalls(k)) :
        /\ Issue(VethCalls(k), failed)
        /\ nsLinks' = IF failed # 1 THEN Append(nsLinks, NetCfg.Veth[k].Name) ELSE nsLinks
    /\ lpos' = lpos + 1
    /\ UNCHANGED <<baseVars, getVars, delVars, opVars, parseVars, lateVars, NetUp, ifIpVec, GwVec, ifDevices>>

\* lines 1385-1408: the loopback goes up, RefreshDevices lists the links of
\* the namespace, every created link is among them
ConfigureLoopback ==
    /\ ifpc = "links"
    /\ lpos > Len(NetCfg.Steal) + Len(NetCfg.Veth)
    /\ LET cs == <<Call("Load", "lo", ""), Call("Up", "lo", ""),
                   Call("RefreshDevices", "", "")>> IN
       \E failed \in 0..Len(cs) :
        /\ kernel' = kernel \o SubSeq(cs, 1, IF failed = 0 THEN 2 ELSE Min({failed - 1, 2}))
        /\ IF failed = 0
           THEN /\ ifDevices' = nsLinks
                /\ ifpc' = "devices"
                /\ lpos' = 1
                /\ ifError' = ifError
           ELSE /\ ifpc' = "done"
                /\ ifError' = Failure
                /\ UNCHANGED <<ifDevices, lpos>>
    /\ UNCHANGED <<baseVars, getVars, delVars, opVars, parseVars, lateVars, NetUp, ifIpVec, GwVec, nsLinks>>

\* lines 1410-1448: one device of the loop
ConfigureDevice ==
    /\ ifpc = "devices"
    /\ lpos <= Len(ifDevices)
    /\ IF ~NetUp /\ ~Found(ifDevices[lpos])
       THEN UNCHANGED <<kernel, ifpc, ifError>>
       ELSE \E failed \in 0..Len(DeviceCalls(ifDevices[lpos])) :
               Issue(DeviceCalls(ifDevices[lpos]), failed)
    /\ lpos' = lpos + 1
    /\ UNCHANGED <<baseVars, getVars, delVars, opVars, parseVars, lateVars, NetUp, ifIpVec, GwVec, nsLinks, ifDevices>>

\* line 1450: return TError::Success()
ConfigureReturn ==
    /\ ifpc = "devices"
    /\ lpos > Len(ifDevices)
    /\ ifpc' = "done"
    /\ ifError' = Success
    /\ UNCHANGED <<baseVars, getVars, delVars, opVars, parseVars, lateVars, NetUp, ifIpVec, GwVec, nsLinks, ifDevices, kernel, lpos>>

ConfigureInterfaces ==
    \/ ConfigureSteal
    \/ ConfigureVeth
    \/ ConfigureLoopback
    \/ ConfigureDevice
    \/ ConfigureReturn

\* a parsed configuration: eth0 stolen or not, eth1 a veth with or without a
\* bridge or absent, any addresses, gateways and autoconf
InitIf ==
    /\ NatUnset /\ RegInit /\ DevInit /\ ClsInit /\ TcInit /\ GetInit /\ DelInit /\ OpInit
    /\ lines = <<>> /\ none = FALSE /\ idx = 0 /\ lineNo = 0 /\ ppc = "done" /\ ncalls = 1
    /\ LateInit
    /\ parsed = "Success"
    /\ \E steal \in {<<>>, <<"eth0">>}, bridge \in {"", "br0", "-"},
          autoconf \in {<<>>, <<"eth0">>, <<"eth1">>} :
        NetCfg = [Reset EXCEPT
                    !.Steal = steal,
                    !.Veth = IF bridge = "-" THEN <<>>
                             ELSE <<[Name |-> "eth1", Bridge |-> bridge, Hw |-> "",
                                     Mtu |-> -1, Peer |-> 0]>>,
                    !.Autoconf = autoconf]
    /\ NetUp \in BOOLEAN
    /\ ifIpVec \in Vectors(IpAddrs)
    /\ GwVec \in Vectors(GwAddrs)
    /\ IfIdle

SpecIf == InitIf /\ [][ConfigureInterfaces]_vars

Range(f) == {f[x] : x \in DOMAIN f}

\* where the call stands in the calls that succeeded, 0 if it was not made
Made(call) ==
    LET at == {u \in 1..Len(kernel) : kernel[u] = call}
    IN  IF at = {} THEN 0 ELSE Min(at)

priorVars == <<baseVars, getVars, delVars, opVars, parseVars, ifVars, lastVars>>
priorRest == <<getVars, delVars, opVars, parseVars, ifVars, lastVars>>

Permission == 2

\* task.cpp lines 30-47, two of the thirteen keys
IpcSysctls == {"kernel.shmmax", "kernel.sem"}

\* TNetwork::NetworkSysctl: the network allow-list
NetworkSysctl(key) == key \in {"net.ipv4.ip_forward"}

SysctlKeys == IpcSysctls \cup {"net.ipv4.ip_forward", "vm.swappiness"}

\* the keys of a workload: up to MaxKeys different keys
SysctlMaps ==
    {m \in UNION {[1..n -> SysctlKeys] : n \in 0..MaxKeys} :
        \A i, j \in DOMAIN m : i # j => m[i] # m[j]}

\* a test that lets an IPC key through without IPC isolation
CheckSysctl_NoIsolate(key) ==
    IF NetworkSysctl(key)
    THEN IF ~NetIsolate THEN "Permission" ELSE "continue"
    ELSE IF key \in IpcSysctls THEN "set"
    ELSE "Permission"

\* lines 211-219: what the loop does with a key
CheckSysctl(key) ==
    IF NetworkSysctl(key)
    THEN IF ~NetIsolate THEN "Permission" ELSE "continue"
    ELSE IF key \in IpcSysctls
         THEN IF ~Isolate THEN "Permission" ELSE "set"
    ELSE "Permission"

\* lines 200-206: one default of the configuration, when Isolate is set
ApplyDefault ==
    /\ spc = "defaults"
    /\ Isolate
    /\ spos <= Len(ipc_sysctl)
    /\ \/ /\ sysLog' = Append(sysLog, [key |-> ipc_sysctl[spos], from |-> "config"])
          /\ spos' = spos + 1
          /\ UNCHANGED <<spc, sysError>>
       \/ /\ spc' = "done"
          /\ sysError' = Failure
          /\ UNCHANGED <<sysLog, spos>>
    /\ UNCHANGED <<priorVars, annVars, Isolate, NetIsolate, Sysctl, ipc_sysctl>>

\* line 208: the loop over CT->Sysctl begins
ApplyWorkload ==
    /\ spc = "defaults"
    /\ ~Isolate \/ spos > Len(ipc_sysctl)
    /\ spc' = "keys"
    /\ spos' = 1
    /\ UNCHANGED <<priorVars, annVars, Isolate, NetIsolate, Sysctl, ipc_sysctl, sysLog, sysError>>

\* lines 208-224: one key of the workload
ApplyKey ==
    /\ spc = "keys"
    /\ spos <= Len(Sysctl)
    /\ LET check == CheckSysctl(Sysctl[spos]) IN
       \/ /\ check = "Permission"
          /\ spc' = "done"
          /\ sysError' = Permission
          /\ UNCHANGED <<sysLog, spos>>
       \/ /\ check = "continue"
          /\ spos' = spos + 1
          /\ UNCHANGED <<sysLog, spc, sysError>>
       \/ /\ check = "set"
          /\ sysLog' = Append(sysLog, [key |-> Sysctl[spos], from |-> "workload"])
          /\ spos' = spos + 1
          /\ UNCHANGED <<spc, sysError>>
       \/ /\ check = "set"
          /\ spc' = "done"
          /\ sysError' = Failure
          /\ UNCHANGED <<sysLog, spos>>
    /\ UNCHANGED <<priorVars, annVars, Isolate, NetIsolate, Sysctl, ipc_sysctl>>

\* line 226: return TError::Success()
ApplyReturn ==
    /\ spc = "keys"
    /\ spos > Len(Sysctl)
    /\ spc' = "done"
    /\ sysError' = Success
    /\ UNCHANGED <<priorVars, annVars, Isolate, NetIsolate, Sysctl, ipc_sysctl, sysLog, spos>>

ApplySysctl ==
    \/ ApplyDefault
    \/ ApplyWorkload
    \/ ApplyKey
    \/ ApplyReturn

\* any workload: both isolation flags, any keys, a configuration with or
\* without a default
InitSysctl ==
    /\ NatUnset /\ RegInit /\ ExtInitPrior /\ AnnInit
    /\ Isolate \in BOOLEAN
    /\ NetIsolate \in BOOLEAN
    /\ Sysctl \in SysctlMaps
    /\ ipc_sysctl \in {<<>>, <<"kernel.shmmax">>}
    /\ SysIdle

SpecSysctl == InitSysctl /\ [][ApplySysctl]_vars

\* the key the loop is at is refused
Refused(key) ==
    \/ key \notin IpcSysctls /\ ~NetworkSysctl(key)
    \/ NetworkSysctl(key) /\ ~NetIsolate
    \/ key \in IpcSysctls /\ ~Isolate

\* C33: ApplySysctl sets a key of the workload only if it is in the IPC
\* allow-list and IPC isolation is enabled; a network key without network
\* isolation, an IPC key without IPC isolation and a key in neither list make
\* it return a permission error, and no key after the refused one is set.
C33_SysctlAllowList ==
    /\ [](\A n \in 1..Len(sysLog) :
            sysLog[n].from = "workload" => (sysLog[n].key \in IpcSysctls /\ Isolate))
    /\ []((spc = "done" /\ sysError = Permission) =>
            \A j \in spos..Len(Sysctl) :
                \A n \in 1..Len(sysLog) :
                    ~(sysLog[n].from = "workload" /\ sysLog[n].key = Sysctl[j]))
    /\ [][(spc = "keys" /\ spos <= Len(Sysctl) /\ Refused(Sysctl[spos]) /\ ApplyKey)
            => (spc' = "done" /\ sysError' = Permission /\ sysLog' = sysLog)]_vars
    /\ [][spc = "done" => UNCHANGED sysVars]_vars

\* C33 witness: with IPC isolation and without network isolation the IPC key
\* was set, then the network key was refused
C33_Witness ==
    /\ Isolate /\ ~NetIsolate
    /\ Sysctl = <<"kernel.sem", "net.ipv4.ip_forward">>
    /\ spc = "done" /\ sysError = Permission
    /\ \E n \in 1..Len(sysLog) : sysLog[n] = [key |-> "kernel.sem", from |-> "workload"]

(***************************************************************************)
(* Announces: TNetwork::AddAnnounce and DelAnnounce (lines 543-595) on the *)
(* parent manager, whose device list RefreshDevices keeps while links      *)
(* come, go and lose IFF_RUNNING.  The parent's lock is held by            *)
(* ConfigureInterfaces, DestroyNetwork and a RefreshDevices pass, so each  *)
(* call is one step.  The workload has one L3 descriptor with one address. *)
(***************************************************************************)
\* DeviceIndex(name): the index of the tracked device called name, or 0
DeviceIndex(name) ==
    LET hits == {j \in 1..Len(Devices) : Devices[j].Name = name}
    IN  IF hits = {} THEN 0 ELSE Devices[Min(hits)].Index

\* lines 563-573: an address of the link at index i has the prefix of addr
Reachable(i) == i \in Indexes /\ Links[i] # NoLink /\ Links[i].Name \in {"eth0", "dummy0"}

\* positions of the tracked devices the probe finds the address reachable on
ReachablePositions == {j \in 1..Len(Devices) : Reachable(Devices[j].Index)}

\* lines 591-592: the indexes DelAnnounce calls ProxyNeighbour for
DelAnnounceIndexes == {Devices[j].Index : j \in 1..Len(Devices)}

\* lines 543-586: AddAnnounce with an explicit master, or probing every
\* tracked device; a failed ProxyNeighbour ends the probe
AddAnnounce ==
    /\ apc = "new"
    /\ dpc = "idle"
    /\ apc' = "announced"
    /\ IF master # ""
       THEN IF DeviceIndex(master) = 0
            THEN annError' = Failure /\ proxy' = proxy
            ELSE \/ /\ Links[DeviceIndex(master)] # NoLink
                    /\ proxy' = proxy \cup {DeviceIndex(master)}
                    /\ annError' = Success
                 \/ annError' = Failure /\ proxy' = proxy
       ELSE \/ annError' = Failure /\ proxy' = proxy
            \/ \E done \in SUBSET ReachablePositions :
                /\ \A j \in done : Links[Devices[j].Index] # NoLink
                /\ \A j \in done, k \in ReachablePositions : k < j => k \in done
                /\ proxy' = proxy \cup {Devices[j].Index : j \in done}
                /\ annError' = IF done = ReachablePositions THEN Success ELSE Failure
    /\ UNCHANGED <<natVars, regVars, devVars, clsVars, tcVars, priorRest, sysVars, master, annFailed>>

\* DestroyNetwork lines 1544-1551 with DelAnnounce (589-595): one
\* ProxyNeighbour(dev.Index, addr, false) per tracked device, each succeeds
\* or fails, the error of the last one is returned
DestroyNetworkAnnounce ==
    /\ apc = "announced"
    /\ dpc = "idle"
    /\ apc' = "destroyed"
    /\ \E failed \in SUBSET DelAnnounceIndexes :
        /\ proxy' = proxy \ (DelAnnounceIndexes \ failed)
        /\ annFailed' = (failed # {})
        /\ annError' = IF Devices # <<>> /\ Devices[Len(Devices)].Index \in failed
                       THEN Failure ELSE Success
    /\ UNCHANGED <<natVars, regVars, devVars, clsVars, tcVars, priorRest, sysVars, master>>

\* a link of the parent namespace goes away, and its neighbour entries with it
ParentLinkDel(i) ==
    /\ dpc = "idle"
    /\ Links[i] # NoLink
    /\ Links' = [Links EXCEPT ![i] = NoLink]
    /\ proxy' = proxy \ {i}
    /\ UNCHANGED <<natVars, regVars, clsVars, tcVars, priorRest, sysVars, Devices, ManagedNamespace,
                   dpc, dev, step, result, unprepared, queued, tcUnmanaged,
                   master, apc, annError, annFailed>>

AnnNext ==
    \/ RefreshDevicesError
    \/ RefreshDevices
    \/ SetupQueueStep
    \/ SetupQueueError
    \/ AddAnnounce
    \/ DestroyNetworkAnnounce
    \/ \E i \in Indexes :
          \/ LinkAdd(i)
          \/ ParentLinkDel(i)
          \/ LinkSetRunning(i)

\* the parent manager with nothing tracked yet; the L3 descriptor names a
\* master or not
InitAnn ==
    /\ NatUnset /\ RegInit /\ ExtInitPrior /\ SysInit
    /\ master \in {"", "eth0"}
    /\ AnnIdle

SpecAnn == InitAnn /\ [][AnnNext]_vars

\* C32: after DestroyNetwork returned with no kernel call failed, no
\* proxy-neighbour entry AddAnnounce installed for the workload's address is
\* left on a link of the parent namespace, whatever happened to the parent's
\* device list in between and with or without an explicit master.
C32_NoAnnounceLeft ==
    (apc = "destroyed" /\ annError = Success /\ ~annFailed) => proxy = {}


(***************************************************************************)
(* The locks: the registry lock (NetworksMutex), the lock of each manager  *)
(* (NetMutex) and the workload-table lock (ContainersMutex), taken by the  *)
(* maintenance thread in RefreshNetworks / RefreshClasses and by workload  *)
(* threads in PrepareNetwork (branch NewNetNs) with ConfigureInterfaces    *)
(* and in DestroyNetwork.  A step that takes a lock waits until it is      *)
(* free.  The host manager exists and is registered.                       *)
(***************************************************************************)
lockRest == <<natVars, devVars, clsVars, tcVars, getVars, delVars, opVars, parseVars,
              ifVars, sysVars, annVars, taskVars>>

\* a ConfigureInterfaces that keeps the parent lock on its way to AddNetwork
ParentUnlockConfigure_Keeps(t) ==
    /\ tpc[t] = "ci_l3"
    /\ \/ /\ NewManagedDevices' = [NewManagedDevices EXCEPT ![Net[t]] = FALSE]
          /\ tpc' = [tpc EXCEPT ![t] = "nn_add"]
          /\ NetMutex' = NetMutex
       \/ /\ NetMutex' = [NetMutex EXCEPT ![ParentNet[t]] = 0]
          /\ tpc' = [tpc EXCEPT ![t] = "dn_next"]
          /\ NewManagedDevices' = NewManagedDevices
    /\ UNCHANGED <<lockRest, lockVars, Networks, NetworksMutex, HostNetwork, NatSize, left,
                   lastAdded, Net, NetNs>>

\* lines 1456-1462: Net = make_shared<TNetwork>(); Net->ConnectNew(NetNs);
\* ConfigureInterfaces is entered.  ParentNet is a live manager.
PrepareNewNetNs(t) ==
    /\ tpc[t] = "idle"
    /\ FreeNets # {}
    /\ \E p \in Nets, i \in NewInodes :
          /\ ~Expired(p)
          /\ ParentNet' = [ParentNet EXCEPT ![t] = p]
          /\ NetNs' = [NetNs EXCEPT ![t] = i]
    /\ Net' = [Net EXCEPT ![t] = NewNet]
    /\ tpc' = [tpc EXCEPT ![t] = "ci_lock"]
    /\ UNCHANGED <<lockRest, regShared, ContainersMutex>>

\* line 1323: auto parent_lock = ParentNet->ScopedLock()
ParentLockConfigure(t) ==
    /\ tpc[t] = "ci_lock"
    /\ NetMutex[ParentNet[t]] = 0
    /\ NetMutex' = [NetMutex EXCEPT ![ParentNet[t]] = t]
    /\ tpc' = [tpc EXCEPT ![t] = "ci_l3"]
    /\ UNCHANGED <<lockRest, lockVars, Networks, NetworksMutex, HostNetwork, NewManagedDevices,
                   NatSize, left, lastAdded, Net, NetNs>>

\* lines 1328-1402: the work under the parent lock; parent_lock.unlock()
\* (1386) and the work on the target, or an error return, which releases
\* the scoped lock as well and makes PrepareNetwork call DestroyNetwork
ParentUnlockConfigure(t) ==
    /\ tpc[t] = "ci_l3"
    /\ NetMutex' = [NetMutex EXCEPT ![ParentNet[t]] = 0]
    /\ \/ /\ NewManagedDevices' = [NewManagedDevices EXCEPT ![Net[t]] = FALSE]
          /\ tpc' = [tpc EXCEPT ![t] = "nn_add"]
       \/ /\ tpc' = [tpc EXCEPT ![t] = "dn_next"]
          /\ NewManagedDevices' = NewManagedDevices
    /\ UNCHANGED <<lockRest, lockVars, Networks, NetworksMutex, HostNetwork, NatSize, left,
                   lastAdded, Net, NetNs>>

\* the workload stops: DestroyNetwork is called
DestroyNetworkEnter(t) ==
    /\ tpc[t] = "held"
    /\ ParentNet[t] # 0
    /\ tpc' = [tpc EXCEPT ![t] = "dn_next"]
    /\ UNCHANGED <<lockRest, lockVars, regShared, Net, NetNs>>

\* lines 1544 and 1568: the loop over L3lan goes on or DestroyNetwork
\* returns; the TNetCfg goes away after it
DestroyNetworkNext(t) ==
    /\ tpc[t] = "dn_next"
    /\ \/ /\ tpc' = [tpc EXCEPT ![t] = "dn_lock"]
          /\ UNCHANGED <<NewManagedDevices, Net, NetNs, ParentNet>>
       \/ /\ NewManagedDevices' = DropNewManagedDevices(t)
          /\ Net' = [Net EXCEPT ![t] = 0]
          /\ NetNs' = [NetNs EXCEPT ![t] = 0]
          /\ ParentNet' = [ParentNet EXCEPT ![t] = 0]
          /\ tpc' = [tpc EXCEPT ![t] = "idle"]
    /\ UNCHANGED <<lockRest, ContainersMutex, Networks, NetworksMutex, HostNetwork, NetMutex,
                   NatSize, left, lastAdded>>

\* line 1545: auto lock = ParentNet->ScopedLock()
ParentLockDestroy(t) ==
    /\ tpc[t] = "dn_lock"
    /\ NetMutex[ParentNet[t]] = 0
    /\ NetMutex' = [NetMutex EXCEPT ![ParentNet[t]] = t]
    /\ tpc' = [tpc EXCEPT ![t] = "dn_l3"]
    /\ UNCHANGED <<lockRest, lockVars, Networks, NetworksMutex, HostNetwork, NewManagedDevices,
                   NatSize, left, lastAdded, Net, NetNs>>

\* lines 1546-1566: DelAnnounce, PutNatAddress; the scoped lock ends with
\* the loop body
ParentUnlockDestroy(t) ==
    /\ tpc[t] = "dn_l3"
    /\ NetMutex' = [NetMutex EXCEPT ![ParentNet[t]] = 0]
    /\ tpc' = [tpc EXCEPT ![t] = "dn_next"]
    /\ UNCHANGED <<lockRest, lockVars, Networks, NetworksMutex, HostNetwork, NewManagedDevices,
                   NatSize, left, lastAdded, Net, NetNs>>

\* line 457: auto ctLock = LockContainers()
RefreshClassesLockContainers ==
    /\ tpc[Maint] = "rc_containers"
    /\ ContainersMutex = 0
    /\ ContainersMutex' = Maint
    /\ tpc' = [tpc EXCEPT ![Maint] = "rc_loop"]
    /\ UNCHANGED <<lockRest, regShared, Net, NetNs, ParentNet>>

\* lines 458-471: the loop meets a workload to call, or ends and
\* RefreshClasses returns: ctLock is released, `net` goes out of scope
RefreshClassesLoop ==
    /\ tpc[Maint] = "rc_loop"
    /\ \/ /\ tpc' = [tpc EXCEPT ![Maint] = "rc_want"]
          /\ UNCHANGED <<ContainersMutex, NewManagedDevices, Net>>
       \/ /\ ContainersMutex' = 0
          /\ NewManagedDevices' = DropNewManagedDevices(Maint)
          /\ Net' = [Net EXCEPT ![Maint] = 0]
          /\ tpc' = [tpc EXCEPT ![Maint] = "rn_loop"]
    /\ UNCHANGED <<lockRest, Networks, NetworksMutex, HostNetwork, NetMutex, NatSize, left,
                   lastAdded, NetNs, ParentNet>>

\* ct->UpdateTrafficClasses() (line 463) takes the lock of the workload's
\* manager for its CreateTC calls
UpdateTrafficClassesLock ==
    /\ tpc[Maint] = "rc_want"
    /\ NetMutex[Net[Maint]] = 0
    /\ NetMutex' = [NetMutex EXCEPT ![Net[Maint]] = Maint]
    /\ tpc' = [tpc EXCEPT ![Maint] = "rc_call"]
    /\ UNCHANGED <<lockRest, lockVars, Networks, NetworksMutex, HostNetwork, NewManagedDevices,
                   NatSize, left, lastAdded, Net, NetNs>>

\* ct->UpdateTrafficClasses() returns
UpdateTrafficClassesUnlock ==
    /\ tpc[Maint] = "rc_call"
    /\ NetMutex' = [NetMutex EXCEPT ![Net[Maint]] = 0]
    /\ tpc' = [tpc EXCEPT ![Maint] = "rc_loop"]
    /\ UNCHANGED <<lockRest, lockVars, Networks, NetworksMutex, HostNetwork, NewManagedDevices,
                   NatSize, left, lastAdded, Net, NetNs>>

LockNext ==
    \/ \E t \in Workers :
          \/ PrepareNewNetNs(t)
          \/ ParentLockConfigure(t)
          \/ ParentUnlockConfigure(t)
          \/ PrepareAddNewNetwork(t)
          \/ DestroyNetworkEnter(t)
          \/ DestroyNetworkNext(t)
          \/ ParentLockDestroy(t)
          \/ ParentUnlockDestroy(t)
    \/ RefreshNetworksLock
    \/ RefreshNetworksNext
    \/ RefreshNetworksUnlock
    \/ RefreshClassesRefresh
    \/ RefreshClassesLockContainers
    \/ RefreshClassesLoop
    \/ UpdateTrafficClassesLock
    \/ UpdateTrafficClassesUnlock

\* the daemon with its host manager prepared and registered
InitLock ==
    /\ NatUnset /\ ExtInit
    /\ Networks = [i \in Inodes |-> IF i = HostInode THEN ThisNet ELSE 0]
    /\ lastAdded = [i \in Inodes |-> IF i = HostInode THEN ThisNet ELSE 0]
    /\ HostNetwork = ThisNet
    /\ NetworksMutex = 0
    /\ NetMutex = [m \in Nets |-> 0]
    /\ NewManagedDevices = [m \in Nets |-> FALSE]
    /\ NatSize = [m \in Nets |-> 0]
    /\ tpc = [t \in Threads |-> "idle"]
    /\ Net = [t \in Threads |-> 0]
    /\ NetNs = [t \in Threads |-> IF t = Root THEN HostInode ELSE 0]
    /\ left = {}

SpecLock == InitLock /\ [][LockNext]_vars

\* the locks: the registry lock, the workload-table lock, the manager locks
Locks == {<<"registry", 0>>, <<"containers", 0>>} \cup {<<"manager", m>> : m \in Nets}

Holder(l) ==
    IF l[1] = "registry" THEN NetworksMutex
    ELSE IF l[1] = "containers" THEN ContainersMutex
    ELSE NetMutex[l[2]]

Held(t) == {l \in Locks : Holder(l) = t}

\* the locks the next step of thread t waits for: it goes on when one of
\* them is free
Wanted(t) ==
    IF tpc[t] \in {"ci_lock", "dn_lock"} THEN {<<"manager", ParentNet[t]>>}
    ELSE IF tpc[t] = "nn_add" THEN {<<"registry", 0>>}
    ELSE IF tpc[t] = "rc_containers" THEN {<<"containers", 0>>}
    ELSE IF tpc[t] = "rc_want" THEN {<<"manager", Net[t]>>}
    ELSE IF tpc[t] = "rn_loop" /\ left # {} /\ \A i \in left : WeakLock(Networks[i]) # 0
         THEN {<<"manager", WeakLock(Networks[i])>> : i \in left}
    ELSE {}

Blocked(t) == Wanted(t) # {} /\ \A l \in Wanted(t) : Holder(l) # 0

\* the order of the locks: registry, then workload table, then a manager
Rank(l) == IF l[1] = "registry" THEN 1 ELSE IF l[1] = "containers" THEN 2 ELSE 3

\* C39: no set of threads waits for locks that only its own members hold,
\* and a thread that goes for a lock holds only locks that come before it in
\* the order registry, workload table, manager; so no thread takes a
\* manager lock while it holds one.
C39_NoDeadlock ==
    /\ \A S \in SUBSET Threads :
          S # {} => \E t \in S : ~Blocked(t) \/ \E l \in Wanted(t) : Holder(l) \notin S
    /\ \A t \in Threads : \A l \in Wanted(t) : \A h \in Held(t) : Rank(h) < Rank(l)

\* C39 witness: the maintenance thread holds the registry lock and the
\* workload-table lock and waits for the lock of a manager that a workload
\* thread holds inside ConfigureInterfaces.
C39_Witness ==
    /\ tpc[Maint] = "rc_want"
    /\ Held(Maint) = {<<"registry", 0>>, <<"containers", 0>>}
    /\ Blocked(Maint)
    /\ \E t \in Workers : tpc[t] = "ci_l3" /\ Holder(<<"manager", Net[Maint]>>) = t


(***************************************************************************)
(* The start handshake of one task (src/src/task.cpp): TTaskEnv::Start in  *)
(* the master, the process it forks ("task", which with TripleFork goes on *)
(* in the process vfork makes and ends as portoinit) and the process that  *)
(* one clones ("app", which runs StartChild).  A send on a socket delivers *)
(* its message; a receive waits for a message and can fail at any time.    *)
(* QuadroFork is off.                                                      *)
(***************************************************************************)
taskRest == <<natVars, regVars, devVars, clsVars, tcVars, getVars, delVars, opVars,
              parseVars, ifVars, sysVars, annVars, lockVars>>

KidPid(k) == IF k = "task" THEN 1 ELSE 2

PidMsg(k, p) == [kind |-> "pid", pid |-> p, by |-> k]
ErrorMsg(k) == [kind |-> "error", pid |-> KidPid(k), by |-> k]

\* line 83: for (int stage = ReportStage; stage < 2; stage++) SendPid(getpid())
AbortPids(stage) == IF stage < 2 THEN 2 - stage ELSE 0

\* lines 73-94, TTaskEnv::Abort in process k: the pids, the error, _exit
AbortMessages(k) ==
    [n \in 1..AbortPids(ReportStage[k]) |-> PidMsg(k, KidPid(k))] \o <<ErrorMsg(k)>>

\* the processes that left the handshake; their ends of the sockets are closed
Ended == {"aborted", "exited", "exec", "killed"}

\* the positions of a child at which the code calls Abort(error)
AbortSites(k) ==
    IF k = "task" THEN {"setup", "clone", "recvpid", "ack_app"}
    ELSE {"wait_ack", "configure", "vpid", "vpid_ack", "configure2", "wait_wakeup", "exec_prep"}

\* a step of the child fails and it calls Abort (lines 405, 410, 415, 422,
\* 425; 476-551, 574, 586, 594)
ChildAbort(k) ==
    /\ kpc[k] \in AbortSites(k)
    /\ Sock' = Sock \o AbortMessages(k)
    /\ reported' = reported \o AbortMessages(k)
    /\ kpc' = [kpc EXCEPT ![k] = "aborted"]
    /\ taskExit' \in IF k = "app" THEN {taskExit}
                     ELSE IF ~TripleFork THEN {"fail"}
                     ELSE IF kpc[k] = "setup" THEN {"ok", "fail"}
                     ELSE {"ok"}
    /\ UNCHANGED <<taskRest, TripleFork, MasterSock, Sock2, MasterSock2, ReportStage, mpc, CT,
                   startError>>

\* lines 431-452: the fields are reset, the socket pair is made, task.Fork()
StartFork ==
    /\ mpc = "idle"
    /\ CT' = NoPids
    /\ \/ /\ mpc' = "recv_wpid"
          /\ kpc' = [kpc EXCEPT !["task"] = "setup"]
          /\ startError' = startError
       \/ /\ mpc' = "returned"
          /\ startError' = Failure
          /\ kpc' = kpc
    /\ UNCHANGED <<taskRest, TripleFork, Sock, MasterSock, Sock2, MasterSock2, ReportStage,
                   taskExit, reported>>

\* lines 454-555: cgroups, priorities, streams, namespaces; with TripleFork
\* vfork, the second socket pair and ReportPid(GetTid()) (lines 64-71)
TaskSetup ==
    /\ kpc["task"] = "setup"
    /\ kpc' = [kpc EXCEPT !["task"] = "clone"]
    /\ IF TripleFork
       THEN /\ Sock' = Append(Sock, PidMsg("task", KidPid("task")))
            /\ reported' = Append(reported, PidMsg("task", KidPid("task")))
            /\ ReportStage' = [ReportStage EXCEPT !["task"] = @ + 1]
       ELSE UNCHANGED <<Sock, reported, ReportStage>>
    /\ UNCHANGED <<taskRest, TripleFork, MasterSock, Sock2, MasterSock2, mpc, CT, taskExit,
                   startError>>

\* lines 568-578: clone(ChildFn); the child has a copy of ReportStage;
\* without TripleFork the forked process exits
TaskClone ==
    /\ kpc["task"] = "clone"
    /\ kpc' = [kpc EXCEPT !["task"] = IF TripleFork THEN "recvpid" ELSE "exited",
                          !["app"] = "start"]
    /\ ReportStage' = [ReportStage EXCEPT !["app"] = ReportStage["task"]]
    /\ taskExit' = IF TripleFork THEN taskExit ELSE "ok"
    /\ UNCHANGED <<taskRest, TripleFork, Sock, MasterSock, Sock2, MasterSock2, mpc, CT,
                   startError, reported>>

\* lines 584-589: MasterSock2.RecvPid(appPid, appVPid); ReportPid(appPid)
TaskForward ==
    /\ kpc["task"] = "recvpid"
    /\ Sock2 = 1
    /\ Sock2' = 0
    /\ Sock' = Append(Sock, PidMsg("task", KidPid("app")))
    /\ reported' = Append(reported, PidMsg("task", KidPid("app")))
    /\ ReportStage' = [ReportStage EXCEPT !["task"] = @ + 1]
    /\ kpc' = [kpc EXCEPT !["task"] = "ack_app"]
    /\ UNCHANGED <<taskRest, TripleFork, MasterSock, MasterSock2, mpc, CT, taskExit, startError>>

\* lines 592-616: MasterSock2.SendZero(); portoinit is executed, or the
\* process kills the cloned child and exits
TaskExec ==
    /\ kpc["task"] = "ack_app"
    /\ MasterSock2' = 1
    /\ taskExit' = "ok"
    /\ \/ kpc' = [kpc EXCEPT !["task"] = "exec"]
       \/ kpc' = [k \in Kids |-> IF k = "task" THEN "exited"
                                 ELSE IF kpc[k] \in Ended THEN kpc[k] ELSE "killed"]
    /\ UNCHANGED <<taskRest, TripleFork, Sock, MasterSock, Sock2, ReportStage, mpc, CT,
                   startError, reported>>

\* lines 394-400: without TripleFork ReportPid(GetPid())
ChildReportWPid ==
    /\ kpc["app"] = "start"
    /\ kpc' = [kpc EXCEPT !["app"] = "wait_ack"]
    /\ IF TripleFork
       THEN UNCHANGED <<Sock, reported, ReportStage>>
       ELSE /\ Sock' = Append(Sock, PidMsg("app", KidPid("app")))
            /\ reported' = Append(reported, PidMsg("app", KidPid("app")))
            /\ ReportStage' = [ReportStage EXCEPT !["app"] = @ + 1]
    /\ UNCHANGED <<taskRest, TripleFork, MasterSock, Sock2, MasterSock2, mpc, CT, taskExit,
                   startError>>

\* lines 403 and 413: Sock.RecvZero() gets the ack, later the wakeup
ChildRecvZero ==
    /\ kpc["app"] \in {"wait_ack", "wait_wakeup"}
    /\ MasterSock > 0
    /\ MasterSock' = MasterSock - 1
    /\ kpc' = [kpc EXCEPT !["app"] = IF kpc["app"] = "wait_ack" THEN "configure"
                                     ELSE "exec_prep"]
    /\ UNCHANGED <<taskRest, TripleFork, Sock, Sock2, MasterSock2, ReportStage, mpc, CT,
                   taskExit, startError, reported>>

\* ConfigureChild, lines 231-303 and 321-end: the steps before and after
\* the report of the pid
ChildConfigure ==
    /\ kpc["app"] \in {"configure", "configure2"}
    /\ kpc' = [kpc EXCEPT !["app"] = IF kpc["app"] = "configure" THEN "vpid"
                                     ELSE "wait_wakeup"]
    /\ UNCHANGED <<taskRest, TripleFork, Sock, MasterSock, Sock2, MasterSock2, ReportStage,
                   mpc, CT, taskExit, startError, reported>>

\* ConfigureChild, lines 306-319: with TripleFork Sock2.SendPid(GetPid()),
\* else ReportPid(GetPid())
ChildReportVPid ==
    /\ kpc["app"] = "vpid"
    /\ IF TripleFork
       THEN /\ Sock2' = 1
            /\ kpc' = [kpc EXCEPT !["app"] = "vpid_ack"]
            /\ UNCHANGED <<Sock, reported, ReportStage>>
       ELSE /\ Sock' = Append(Sock, PidMsg("app", KidPid("app")))
            /\ reported' = Append(reported, PidMsg("app", KidPid("app")))
            /\ ReportStage' = [ReportStage EXCEPT !["app"] = @ + 1]
            /\ kpc' = [kpc EXCEPT !["app"] = "configure2"]
            /\ Sock2' = Sock2
    /\ UNCHANGED <<taskRest, TripleFork, MasterSock, MasterSock2, mpc, CT, taskExit, startError>>

\* ConfigureChild, lines 312-317: Sock2.RecvZero(); ReportStage++
ChildVPidAck ==
    /\ kpc["app"] = "vpid_ack"
    /\ MasterSock2 = 1
    /\ MasterSock2' = 0
    /\ ReportStage' = [ReportStage EXCEPT !["app"] = @ + 1]
    /\ kpc' = [kpc EXCEPT !["app"] = "configure2"]
    /\ UNCHANGED <<taskRest, TripleFork, Sock, MasterSock, Sock2, mpc, CT, taskExit,
                   startError, reported>>

\* lines 418-424: WaitAutoconf and ChildExec succeed: the command runs and
\* the socket is closed
ChildExec ==
    /\ kpc["app"] = "exec_prep"
    /\ kpc' = [kpc EXCEPT !["app"] = "exec"]
    /\ UNCHANGED <<taskRest, TripleFork, Sock, MasterSock, Sock2, MasterSock2, ReportStage,
                   mpc, CT, taskExit, startError, reported>>

\* no message waits on the report socket and no process can send one
EndOfFile == Sock = <<>> /\ \A k \in Kids : kpc[k] \in Ended \cup {"none"}

\* kill_all, lines 658-668: the children are killed, the fields are reset
\* and the error is returned
KillAll(err) ==
    /\ kpc' = [k \in Kids |-> IF kpc[k] \in Ended \cup {"none"} THEN kpc[k] ELSE "killed"]
    /\ CT' = NoPids
    /\ startError' = err
    /\ mpc' = "returned"

\* lines 625-627 and 634-636: MasterSock.RecvPid
StartRecvPid ==
    /\ mpc \in {"recv_wpid", "recv_vpid"}
    /\ IF Sock # <<>> /\ Head(Sock).kind = "pid"
       THEN /\ Sock' = Tail(Sock)
            /\ CT' = IF mpc = "recv_wpid"
                     THEN [CT EXCEPT !.WaitTaskPid = Head(Sock).pid, !.TaskVPid = Head(Sock).pid]
                     ELSE [CT EXCEPT !.TaskPid = Head(Sock).pid, !.TaskVPid = Head(Sock).pid]
            /\ mpc' = IF mpc = "recv_wpid" THEN "ack" ELSE "wait"
            /\ UNCHANGED <<kpc, startError>>
       ELSE /\ Sock # <<>> \/ EndOfFile
            /\ Sock' = IF Sock # <<>> THEN Tail(Sock) ELSE Sock
            /\ KillAll([kind |-> "recv", pid |-> 0, by |-> "master"])
    /\ UNCHANGED <<taskRest, TripleFork, MasterSock, Sock2, MasterSock2, ReportStage, taskExit,
                   reported>>

\* lines 630-632: the ack of the first pid; lines 638-643: task.Wait() and
\* the wakeup
StartSendZero ==
    /\ \/ mpc = "ack" /\ mpc' = "recv_vpid"
       \/ mpc = "wait" /\ taskExit # "none" /\ mpc' = "recv_error"
    /\ MasterSock' = MasterSock + 1
    /\ UNCHANGED <<taskRest, TripleFork, Sock, Sock2, MasterSock2, ReportStage, kpc, CT,
                   taskExit, startError, reported>>

\* lines 646-655: MasterSock.RecvError(); the reported error is preferred,
\* else the exit status of the forked process decides
StartRecvError ==
    /\ mpc = "recv_error"
    /\ IF Sock # <<>>
       THEN /\ Sock' = Tail(Sock)
            /\ KillAll(IF Head(Sock).kind = "error" THEN Head(Sock)
                       ELSE [kind |-> "recv", pid |-> 0, by |-> "master"])
       ELSE /\ EndOfFile
            /\ Sock' = Sock
            /\ IF taskExit = "fail"
               THEN KillAll([kind |-> "exit", pid |-> 0, by |-> "master"])
               ELSE /\ mpc' = "returned"
                    /\ startError' = Success
                    /\ UNCHANGED <<kpc, CT>>
    /\ UNCHANGED <<taskRest, TripleFork, MasterSock, Sock2, MasterSock2, ReportStage, taskExit,
                   reported>>

TaskNext ==
    \/ StartFork
    \/ TaskSetup
    \/ TaskClone
    \/ TaskForward
    \/ TaskExec
    \/ ChildReportWPid
    \/ ChildRecvZero
    \/ ChildConfigure
    \/ ChildReportVPid
    \/ ChildVPidAck
    \/ ChildExec
    \/ \E k \in Kids : ChildAbort(k)
    \/ StartRecvPid
    \/ StartSendZero
    \/ StartRecvError

\* Start is about to be called, with TripleFork set or not
InitTask ==
    /\ NatUnset /\ RegInit /\ DevInit /\ ClsInit /\ TcInit /\ GetInit /\ DelInit /\ OpInit
    /\ ParseInit /\ IfInit /\ SysInit /\ AnnInit /\ LockIdle
    /\ TripleFork \in BOOLEAN
    /\ TaskIdle

SpecTask == InitTask /\ [][TaskNext]_vars

Kinds(msgs) == [n \in 1..Len(msgs) |-> msgs[n].kind]

SentBy(k) == SelectSeq(reported, LAMBDA m : m.by = k)

Aborted == {k \in Kids : kpc[k] = "aborted"} # {}

\* what Start does with the reports, when a child called Abort: the master
\* receives the error where it expects it, returns it and resets the pids
StartReturnsReported ==
    /\ (Aborted /\ mpc \in {"recv_wpid", "recv_vpid"} /\ Sock # <<>>)
          => Head(Sock).kind = "pid"
    /\ (Aborted /\ mpc = "recv_error" /\ Sock # <<>>) => Head(Sock).kind = "error"
    /\ (Aborted /\ mpc = "returned")
          => /\ startError = reported[3]
             /\ CT = NoPids

\* C40: once a child process called Abort, the reports sent on the report
\* socket begin with two pid reports followed by one error report, whichever
\* process sent the pids, and the process that aborts sends its error report
\* last; so the master receives a pid where it expects a pid and the error
\* where it expects the error, and Start returns the reported error with
\* Task.Pid, TaskVPid, WaitTask.Pid and SeizeTask.Pid reset to 0.
C40_TwoPidsThenError ==
    /\ Aborted =>
          /\ Len(reported) >= 3
          /\ Kinds(SubSeq(reported, 1, 3)) = <<"pid", "pid", "error">>
    /\ \A k \in Kids :
          kpc[k] = "aborted" =>
             /\ SentBy(k) # <<>>
             /\ SentBy(k)[Len(SentBy(k))].kind = "error"
    /\ StartReturnsReported

====
